---- MODULE Spec2Model ----
(***************************************************************************)
(* A model of confman: deep_merge (utils.py), ConfigManager / Config       *)
(* (manager.py), validate_config (validation.py) and the sources and the   *)
(* temp-file-then-rename writers of sources.py.                            *)
(*                                                                         *)
(* Python objects live in a heap of dict and list objects addressed by     *)
(* identity, so that dict(x) (a shallow copy) and aliasing of nested       *)
(* objects are what they are in the interpreter.                           *)
(***************************************************************************)
EXTENDS Integers, Sequences, FiniteSets, TLC

(***************************************************************************)
(* Bounds and input alphabets                                              *)
(***************************************************************************)
\* Largest number of nodes (mappings and leaves, the root included) of an
\* input tree.
MaxNodes == 3
\* Number of deep_merge calls made in one behaviour of SpecMerge.
MaxMerges == 2
\* Largest number of sources a ConfigManager is constructed with.
MaxSources == 2
\* Number of writes the caller makes, once it holds a Config, to the mappings
\* it gave to DictSource.
MaxMutations == 1
\* Number of dump() calls on one target path in one behaviour.
MaxDumps == 2
\* Number of write() system calls that carry one payload to the file.
NChunks == 2

Keys == {"a", "b"}

(***************************************************************************)
(* Python values and the heap                                              *)
(*   a value is a scalar (an int, None), a reference to a heap object, or  *)
(*   the marker of a key that a dict does not hold                         *)
(***************************************************************************)
Absent == [t |-> "absent", v |-> 0]
None == [t |-> "null", v |-> 0]
IntVal(n) == [t |-> "int", v |-> n]
Ref(id) == [t |-> "ref", v |-> id]

NoItems == [k \in Keys |-> Absent]
EmptyDict == [kind |-> "map", items |-> NoItems, elems |-> <<>>]
ListObj(es) == [kind |-> "seq", items |-> NoItems, elems |-> es]

\* isinstance(value, Mapping)
IsMapping(h, val) == val.t = "ref" /\ h[val.v].kind = "map"

\* key in d
HasKey(h, id, k) == h[id].items[k] # Absent

KeysOf(h, id) == {k \in Keys : HasKey(h, id, k)}

RECURSIVE SetToSeq(_)
SetToSeq(S) ==
    IF S = {} THEN <<>>
    ELSE LET x == CHOOSE y \in S : TRUE IN <<x>> \o SetToSeq(S \ {x})

(***************************************************************************)
(* The value of a tree, by structure: the set of <<path, leaf>> of its     *)
(* nodes.  Two trees are == in Python exactly when these sets are equal.   *)
(***************************************************************************)
MapLeaf == [kind |-> "map", elems |-> <<>>]
NullLeaf == [kind |-> "null", elems |-> <<>>]
IntLeaf(n) == [kind |-> "int", elems |-> <<n>>]
SeqLeaf(es) == [kind |-> "seq", elems |-> es]

RECURSIVE Flat(_, _)
Flat(h, val) ==
    IF val.t = "int" THEN {<<<<>>, IntLeaf(val.v)>>}
    ELSE IF val.t = "null" THEN {<<<<>>, NullLeaf>>}
    ELSE IF val.t = "absent" THEN {}
    ELSE IF h[val.v].kind = "seq" THEN {<<<<>>, SeqLeaf(h[val.v].elems)>>}
    ELSE {<<<<>>, MapLeaf>>} \cup
         UNION {{<<(<<k>> \o n[1]), n[2]>> : n \in Flat(h, h[val.v].items[k])} : k \in Keys}

\* The subtree of flat tree t under key k, and the test for one.
Sub(t, k) == {<<Tail(n[1]), n[2]>> : n \in {m \in t : Len(m[1]) > 0 /\ m[1][1] = k}}
TopKeys(t) == {n[1][1] : n \in {m \in t : Len(m[1]) > 0}}
RootLeaf(t) == (CHOOSE n \in t : n[1] = <<>>)[2]
IsMapTree(t) == t # {} /\ RootLeaf(t) = MapLeaf

(***************************************************************************)
(* Input trees: every mapping tree of at most n nodes over Keys            *)
(***************************************************************************)
Leaves == {IntLeaf(1), IntLeaf(2), NullLeaf, SeqLeaf(<<1>>)}
NodeKinds == Leaves \cup {MapLeaf}

MapPaths(t) == {n[1] : n \in {m \in t : m[2] = MapLeaf}}
HasPath(t, p) == \E n \in t : n[1] = p

Grow(T) ==
    T \cup UNION {UNION {UNION {
        IF HasPath(t, Append(p, k)) THEN {}
        ELSE {t \cup {<<Append(p, k), l>>} : l \in NodeKinds}
        : k \in Keys} : p \in MapPaths(t)} : t \in T}

RECURSIVE TreesUpTo(_)
TreesUpTo(n) == IF n <= 1 THEN {{<<<<>>, MapLeaf>>}} ELSE Grow(TreesUpTo(n - 1))

\* Deeper trees than MaxNodes allows:
\*   {a: {a: {a: 1}, b: 2}, b: [1]}, {a: {a: {b: 2}, b: None}, b: {a: 1}},
\*   {a: {a: 2, b: {a: 1}}, b: 1}
DeepTrees ==
    { {<<<<>>, MapLeaf>>, <<<<"a">>, MapLeaf>>, <<<<"a", "a">>, MapLeaf>>,
       <<<<"a", "a", "a">>, IntLeaf(1)>>, <<<<"a", "b">>, IntLeaf(2)>>,
       <<<<"b">>, SeqLeaf(<<1>>)>>},
      {<<<<>>, MapLeaf>>, <<<<"a">>, MapLeaf>>, <<<<"a", "a">>, MapLeaf>>,
       <<<<"a", "a", "b">>, IntLeaf(2)>>, <<<<"a", "b">>, NullLeaf>>,
       <<<<"b">>, MapLeaf>>, <<<<"b", "a">>, IntLeaf(1)>>},
      {<<<<>>, MapLeaf>>, <<<<"a">>, MapLeaf>>, <<<<"a", "a">>, IntLeaf(2)>>,
       <<<<"a", "b">>, MapLeaf>>, <<<<"a", "b", "a">>, IntLeaf(1)>>,
       <<<<"b">>, IntLeaf(1)>>} }

InputTrees == TreesUpTo(MaxNodes) \cup DeepTrees

\* The literal a caller writes: the objects of flat tree t, allocated in h.
RECURSIVE Build(_, _), BuildItems(_, _, _, _)
Build(h, t) ==
    LET l == RootLeaf(t)
    IN IF l.kind = "map"
       THEN BuildItems(Append(h, EmptyDict), Len(h) + 1, t, SetToSeq(TopKeys(t)))
       ELSE IF l.kind = "seq"
       THEN [heap |-> Append(h, ListObj(l.elems)), val |-> Ref(Len(h) + 1)]
       ELSE IF l.kind = "int"
       THEN [heap |-> h, val |-> IntVal(l.elems[1])]
       ELSE [heap |-> h, val |-> None]
BuildItems(h, id, t, ks) ==
    IF ks = <<>> THEN [heap |-> h, val |-> Ref(id)]
    ELSE LET b == Build(h, Sub(t, Head(ks)))
         IN BuildItems([b.heap EXCEPT ![id].items[Head(ks)] = b.val], id, t, Tail(ks))

(***************************************************************************)
(* utils.py: deep_merge                                                    *)
(***************************************************************************)
\* dict(d): a new dict object with the items of d (a shallow copy).
DictCopy(h, id) == [heap |-> Append(h, h[id]), ref |-> Len(h) + 1]

\* Plausible bug: result = base, no copy.
deep_merge_start_alias(h, base) == [heap |-> h, ref |-> base]

\* result: Dict[str, Any] = dict(base)
deep_merge_start(h, base) == DictCopy(h, base)

\* Plausible bug: dict.update semantics, override always replaces.
deep_merge_item_replace(h, cur, value) == FALSE

\* key in result and isinstance(result[key], Mapping) and isinstance(value, Mapping)
deep_merge_recurses(h, cur, value) ==
    cur # Absent /\ IsMapping(h, cur) /\ IsMapping(h, value)

RECURSIVE deep_merge(_, _, _), deep_merge_loop(_, _, _, _)
\* for key, value in override.items(): ...
deep_merge_loop(h, result, override, ks) ==
    IF ks = <<>> THEN [heap |-> h, ref |-> result]
    ELSE LET key == Head(ks)
             value == h[override].items[key]
             cur == h[result].items[key]
         IN IF deep_merge_recurses(h, cur, value)
            THEN LET m == deep_merge(h, cur.v, value.v)
                 IN deep_merge_loop([m.heap EXCEPT ![result].items[key] = Ref(m.ref)],
                                    result, override, Tail(ks))
            ELSE deep_merge_loop([h EXCEPT ![result].items[key] = value],
                                 result, override, Tail(ks))
deep_merge(h, base, override) ==
    LET c == deep_merge_start(h, base)
    IN deep_merge_loop(c.heap, c.ref, override, SetToSeq(KeysOf(h, override)))

(***************************************************************************)
(* State                                                                   *)
(***************************************************************************)
VARIABLES
    heap,       \* the interpreter's dict and list objects, by identity
    mA, mB,     \* SpecMerge: the two mappings a caller holds
    mA0, mB0,   \* SpecMerge: their values when the caller built them
    mBase, mOver, mR,  \* SpecMerge: the last call's arguments and result
    nmerge,     \* SpecMerge: deep_merge calls made
    callerData, \* per source: the mapping the caller gave to DictSource (0: none)
    sources,    \* ConfigManager._sources
    schema,     \* ConfigManager._schema
    jsonschemaInstalled,  \* whether "import jsonschema" succeeds
    pc,         \* load(): "idle", "fold", "validated", "done", "failed"
    idx,        \* load(): position of the for loop in _sources
    merged,     \* load(): the local merged
    cfg,        \* the Config load() returned: its _data (0: no Config)
    calls,      \* per source: source.load() calls made by this load()
    outcome,    \* per source: what its load() did in this load()
    vcalls,     \* validate_config calls made by this load()
    err,        \* the exception load() raised
    results,    \* the values of the mappings the sources returned, in order
    returned,   \* the value of the Config when load() returned it
    nmut,       \* writes the caller has made to its mappings
    fsDir,      \* whether the target's parent directories exist
    fsNames,    \* directory entries "target" and "tmp": an inode, or 0
    fsInodes,   \* the files: content (a sequence of chunks) and mode
    procs,      \* the dump() calls: position, arguments, open file
    concurrent, \* whether dump() calls may overlap
    fSuffix,    \* FileSource._path.suffix
    fOptional,  \* FileSource._optional
    fExists,    \* whether the file of the FileSource exists
    fDoc,       \* what the file holds
    tomlAvailable, yamlAvailable,  \* whether tomllib / yaml were imported
    fLoad,      \* the last FileSource.load(): what it met and what it did
    rawLoad,    \* the last RawSource.load() on the same path, likewise
    cRaw,       \* the string given to _parse_env_like_value
    cOut,       \* what _parse_env_like_value returned
    iniTree,    \* the tree FileSource.dump is given for an INI path
    iniFs,      \* the INI file and its temporary sibling, as lines of text
    iniDump,    \* the dump() of iniTree: what it met and what it did
    iniLoad,    \* the load() after it: what it returned
    environ,    \* os.environ: the variables in iteration order
    envPrefix,  \* EnvSource._prefix
    envLoad,    \* the last EnvSource.load(): what it returned
    rSpecs,     \* SpecReload: what the manager's sources were constructed from
    rSources,   \* SpecReload: ConfigManager._sources
    rSchema,    \* SpecReload: ConfigManager._schema
    rData0,     \* SpecReload: the values the DictSources held when constructed
    rCount,     \* SpecReload: load() calls made
    rLast,      \* SpecReload: per load(), what it returned or that it raised
    rFresh      \* SpecReload: per load(), the same for a manager constructed then

varsMerge == <<mA, mB, mA0, mB0, mBase, mOver, mR, nmerge>>
varsManager == <<callerData, sources, schema, jsonschemaInstalled, pc, idx, merged,
                 cfg, calls, outcome, vcalls, err, results, returned, nmut>>
varsDump == <<fsDir, fsNames, fsInodes, procs, concurrent>>
varsFile == <<fSuffix, fOptional, fExists, fDoc, tomlAvailable, yamlAvailable, fLoad,
              rawLoad>>
varsCoerce == <<cRaw, cOut>>
varsIni == <<iniTree, iniFs, iniDump, iniLoad>>
varsEnv == <<environ, envPrefix, envLoad>>
varsReload == <<rSpecs, rSources, rSchema, rData0, rCount, rLast, rFresh>>
varsText == <<varsCoerce, varsIni, varsEnv, varsReload>>
vars == <<heap, varsMerge, varsManager, varsDump, varsFile, varsText>>

\* The variables of the manager while deep_merge alone is exercised.
ManagerUnused ==
    /\ callerData = <<>>
    /\ sources = <<>>
    /\ schema = [present |-> FALSE, required |-> {}]
    /\ jsonschemaInstalled = FALSE
    /\ pc = "unused"
    /\ idx = 0
    /\ merged = 0
    /\ cfg = 0
    /\ calls = <<>>
    /\ outcome = <<>>
    /\ vcalls = 0
    /\ err = [kind |-> "none", origin |-> "none", source |-> 0]
    /\ results = <<>>
    /\ returned = {}
    /\ nmut = 0

NoDoc == [top |-> "none", tree |-> {}]
NotLoaded ==
    [called |-> FALSE, exists |-> FALSE, doc |-> NoDoc, raised |-> FALSE,
     err |-> "none", val |-> "none", tree |-> {}, ext |-> ""]

\* The value slot of a call not yet made.
NoValue == [t |-> "none", b |-> FALSE, n |-> 0, e |-> 0, s |-> <<>>]

CoerceUnused ==
    /\ cRaw = <<>>
    /\ cOut = NoValue

\* A path with no file behind it.
NoLines == [exists |-> FALSE, lines |-> <<>>]
NoDump == [called |-> FALSE, raised |-> FALSE, exc |-> "none", at |-> "none", path |-> <<>>,
           before |-> NoLines]
NoLoad == [called |-> FALSE, raised |-> FALSE, tree |-> <<>>]

IniUnused ==
    /\ iniTree = <<>>
    /\ iniFs = [target |-> NoLines, tmp |-> NoLines]
    /\ iniDump = NoDump
    /\ iniLoad = NoLoad

NoEnvLoad == [called |-> FALSE, absent |-> FALSE, tree |-> {}]

EnvUnused ==
    /\ environ = <<>>
    /\ envPrefix = <<>>
    /\ envLoad = NoEnvLoad

ReloadUnused ==
    /\ rSpecs = <<>>
    /\ rSources = <<>>
    /\ rSchema = [present |-> FALSE, required |-> {}]
    /\ rData0 = <<>>
    /\ rCount = 0
    /\ rLast = <<>>
    /\ rFresh = <<>>

TextUnused ==
    /\ CoerceUnused
    /\ IniUnused
    /\ EnvUnused
    /\ ReloadUnused

FileUnused ==
    /\ fSuffix = ""
    /\ fOptional = FALSE
    /\ fExists = FALSE
    /\ fDoc = NoDoc
    /\ tomlAvailable = FALSE
    /\ yamlAvailable = FALSE
    /\ fLoad = NotLoaded
    /\ rawLoad = NotLoaded

DumpUnused ==
    /\ fsDir = FALSE
    /\ fsNames = [target |-> 0, tmp |-> 0]
    /\ fsInodes = <<>>
    /\ procs = <<>>
    /\ concurrent = FALSE

MergeUnused ==
    /\ mA = 0
    /\ mB = 0
    /\ mA0 = {}
    /\ mB0 = {}
    /\ mBase = 0
    /\ mOver = 0
    /\ mR = 0
    /\ nmerge = 0

(***************************************************************************)
(* SpecMerge: a caller builds A and B, calls deep_merge(A, B), and keeps   *)
(* merging A or B over the result                                          *)
(***************************************************************************)
InitMerge ==
    \E ta \in InputTrees, tb \in InputTrees :
        LET a == Build(<<>>, ta)
            b == Build(a.heap, tb)
        IN /\ heap = b.heap
           /\ mA = a.val.v
           /\ mB = b.val.v
           /\ mA0 = ta
           /\ mB0 = tb
           /\ mBase = 0
           /\ mOver = 0
           /\ mR = 0
           /\ nmerge = 0
           /\ ManagerUnused
           /\ DumpUnused
           /\ FileUnused
           /\ TextUnused

\* R = deep_merge(A, B)
MergeFirst ==
    /\ nmerge = 0
    /\ LET m == deep_merge(heap, mA, mB)
       IN /\ heap' = m.heap
          /\ mR' = m.ref
    /\ mBase' = mA
    /\ mOver' = mB
    /\ nmerge' = 1
    /\ UNCHANGED <<mA, mB, mA0, mB0, varsManager, varsDump, varsFile, varsText>>

\* R = deep_merge(R, X) for X one of A, B
MergeAgain ==
    /\ nmerge >= 1
    /\ nmerge < MaxMerges
    /\ \E x \in {mA, mB} :
        LET m == deep_merge(heap, mR, x)
        IN /\ heap' = m.heap
           /\ mR' = m.ref
           /\ mBase' = mR
           /\ mOver' = x
    /\ nmerge' = nmerge + 1
    /\ UNCHANGED <<mA, mB, mA0, mB0, varsManager, varsDump, varsFile, varsText>>

NextMerge == MergeFirst \/ MergeAgain

SpecMerge == InitMerge /\ [][NextMerge]_vars

\* The objects reachable from object id, itself included.
RECURSIVE Reach(_, _)
Reach(h, id) ==
    {id} \cup UNION {IF h[id].items[k].t = "ref" THEN Reach(h, h[id].items[k].v) ELSE {}
                     : k \in Keys}

\* C2: deep_merge(A, B) leaves A and B unmodified at every nesting depth:
\* after the call, and after every further deep_merge that takes the result
\* as its base, A and B have the values they had before the call.
C2_InputsUnmodified ==
    nmerge >= 1 => /\ Flat(heap, Ref(mA)) = mA0
                   /\ Flat(heap, Ref(mB)) = mB0

\* C2 witness: after a chain of merges the result shares a nested object with A
\* and has a value that is neither A's nor B's.
C2_Witness ==
    /\ nmerge >= 2
    /\ (Reach(heap, mR) \cap Reach(heap, mA)) # {}
    /\ Flat(heap, Ref(mR)) # mA0
    /\ Flat(heap, Ref(mR)) # mB0
    /\ \E k \in Keys : deep_merge_recurses(heap, heap[mA].items[k], heap[mB].items[k])

\* C3: R = deep_merge(A, B) has exactly the keys of A and of B; a key of A
\* only keeps A's value, a key of B only has B's value, a key of both whose two
\* values are mappings holds deep_merge of the two, and every other key of both
\* (a scalar, None or a sequence on either side) holds B's value as it is.
C3_MergeByKey ==
    nmerge >= 1 =>
        /\ KeysOf(heap, mR) = KeysOf(heap, mBase) \cup KeysOf(heap, mOver)
        /\ \A k \in Keys :
            LET a == heap[mBase].items[k]
                b == heap[mOver].items[k]
                r == heap[mR].items[k]
            IN /\ (a # Absent /\ b = Absent) => Flat(heap, r) = Flat(heap, a)
               /\ (a = Absent /\ b # Absent) => Flat(heap, r) = Flat(heap, b)
               /\ (a # Absent /\ b # Absent /\ IsMapping(heap, a) /\ IsMapping(heap, b)) =>
                      LET m == deep_merge(heap, a.v, b.v)
                      IN Flat(heap, r) = Flat(m.heap, Ref(m.ref))
               /\ (a # Absent /\ b # Absent /\ ~(IsMapping(heap, a) /\ IsMapping(heap, b))) =>
                      Flat(heap, r) = Flat(heap, b)

\* C3 witness: one merge met a key whose two values are mappings with
\* different contents, so that the merged value is neither of them.
C3_Witness ==
    /\ nmerge >= 1
    /\ \E k \in Keys :
           /\ IsMapping(heap, heap[mBase].items[k])
           /\ IsMapping(heap, heap[mOver].items[k])
           /\ Flat(heap, heap[mR].items[k]) # Flat(heap, heap[mBase].items[k])
           /\ Flat(heap, heap[mR].items[k]) # Flat(heap, heap[mOver].items[k])

(***************************************************************************)
(* sources.py: the sources a manager folds                                 *)
(*   "dict"        DictSource                                              *)
(*   "absent"      a source whose load() returns None (an optional         *)
(*                 FileSource whose file is missing)                       *)
(*   "nonmapping"  a source whose load() returns 42 (the tests' BadSource) *)
(*   "raises"      a source whose load() raises ConfigurationError (a      *)
(*                 FileSource whose file is missing and not optional)      *)
(***************************************************************************)
\* Mappings a caller gives to DictSource:
\*   {}, {a: 1}, {a: {a: 1, b: 1}}, {a: {b: 2}}, {a: [1], b: 2},
\*   {a: {a: {a: 1}}, b: [1]}, {a: {a: {b: 2}}}, {a: None, b: {a: 1}}
SourceTrees ==
    { {<<<<>>, MapLeaf>>},
      {<<<<>>, MapLeaf>>, <<<<"a">>, IntLeaf(1)>>},
      {<<<<>>, MapLeaf>>, <<<<"a">>, MapLeaf>>, <<<<"a", "a">>, IntLeaf(1)>>,
       <<<<"a", "b">>, IntLeaf(1)>>},
      {<<<<>>, MapLeaf>>, <<<<"a">>, MapLeaf>>, <<<<"a", "b">>, IntLeaf(2)>>},
      {<<<<>>, MapLeaf>>, <<<<"a">>, SeqLeaf(<<1>>)>>, <<<<"b">>, IntLeaf(2)>>},
      {<<<<>>, MapLeaf>>, <<<<"a">>, MapLeaf>>, <<<<"a", "a">>, MapLeaf>>,
       <<<<"a", "a", "a">>, IntLeaf(1)>>, <<<<"b">>, SeqLeaf(<<1>>)>>},
      {<<<<>>, MapLeaf>>, <<<<"a">>, MapLeaf>>, <<<<"a", "a">>, MapLeaf>>,
       <<<<"a", "a", "b">>, IntLeaf(2)>>},
      {<<<<>>, MapLeaf>>, <<<<"a">>, NullLeaf>>, <<<<"b">>, MapLeaf>>,
       <<<<"b", "a">>, IntLeaf(1)>>} }

SourceSpecs ==
    {[kind |-> "dict", tree |-> t] : t \in SourceTrees}
        \cup {[kind |-> k, tree |-> {}] : k \in {"absent", "nonmapping", "raises"}}

\* DictSource.__init__: self._data = dict(data)
DictSource_init(h, data) ==
    LET c == DictCopy(h, data)
    IN [heap |-> c.heap, src |-> [kind |-> "dict", data |-> c.ref]]

\* The caller builds each mapping and constructs its source, in order.
RECURSIVE Construct(_, _, _, _)
Construct(h, specs, cd, srcs) ==
    IF specs = <<>> THEN [heap |-> h, callerData |-> cd, sources |-> srcs]
    ELSE LET sp == Head(specs)
         IN IF sp.kind = "dict"
            THEN LET b == Build(h, sp.tree)
                     d == DictSource_init(b.heap, b.val.v)
                 IN Construct(d.heap, Tail(specs), Append(cd, b.val.v), Append(srcs, d.src))
            ELSE Construct(h, Tail(specs), Append(cd, 0),
                           Append(srcs, [kind |-> sp.kind, data |-> 0]))

\* source.load(): what it returns or raises, and the heap after it.
\*   DictSource.load: return dict(self._data)
Source_load(h, src) ==
    IF src.kind = "dict"
    THEN LET c == DictCopy(h, src.data)
         IN [heap |-> c.heap, raised |-> FALSE, val |-> Ref(c.ref)]
    ELSE IF src.kind = "absent" THEN [heap |-> h, raised |-> FALSE, val |-> None]
    ELSE IF src.kind = "nonmapping" THEN [heap |-> h, raised |-> FALSE, val |-> IntVal(42)]
    ELSE [heap |-> h, raised |-> TRUE, val |-> None]

(***************************************************************************)
(* validation.py: validate_config                                          *)
(***************************************************************************)
NoSchema == [present |-> FALSE, required |-> {}]
Schemas == {NoSchema, [present |-> TRUE, required |-> {"a"}],
            [present |-> TRUE, required |-> {"a", "b"}]}

\* jsonschema.validate(instance=data, schema=schema) for a schema of the
\* shape {"type": "object", "required": [...]}: TRUE when it raises nothing.
jsonschema_validate(tree, sch) == sch.required \subseteq TopKeys(tree)

\* Plausible bug: the outcome of the validation is dropped.
validate_config_ignored(tree, sch, installed) == "ok"

\* validate_config(data, schema): "ok" when it returns, else what it raises.
validate_config(tree, sch, installed) ==
    IF ~sch.present THEN "ok"
    ELSE IF ~installed THEN "ConfigurationError"
    ELSE IF jsonschema_validate(tree, sch) THEN "ok"
    ELSE "ConfigurationError"

(***************************************************************************)
(* manager.py: ConfigManager.load and Config                               *)
(***************************************************************************)
NoError == [kind |-> "none", origin |-> "none", source |-> 0]

\* Plausible bug: a non-mapping result is skipped like None.
load_dispatch_lenient(h, data) ==
    IF data = None \/ ~IsMapping(h, data) THEN "continue" ELSE "merge"

\* if data is None: continue / if not isinstance(data, Mapping): raise
load_dispatch(h, data) ==
    IF data = None THEN "continue"
    ELSE IF ~IsMapping(h, data) THEN "raise"
    ELSE "merge"

\* Plausible bug: the arguments of deep_merge swapped.
load_merge_swapped(h, acc, data) == deep_merge(h, data, acc)

\* merged = deep_merge(merged, data)
load_merge(h, acc, data) == deep_merge(h, acc, data)

\* Config.__init__: self._data = dict(data)
Config_init(h, data) == DictCopy(h, data)

InitManager ==
    /\ MergeUnused
    /\ DumpUnused
    /\ FileUnused
    /\ TextUnused
    /\ \E n \in 1..MaxSources : \E specs \in [1..n -> SourceSpecs] :
        LET c == Construct(<<>>, specs, <<>>, <<>>)
        IN /\ heap = c.heap
           /\ callerData = c.callerData
           /\ sources = c.sources
           /\ calls = [i \in 1..n |-> 0]
           /\ outcome = [i \in 1..n |-> "unread"]
    /\ schema \in Schemas
    /\ jsonschemaInstalled \in BOOLEAN
    /\ pc = "idle"
    /\ idx = 0
    /\ merged = 0
    /\ cfg = 0
    /\ vcalls = 0
    /\ err = NoError
    /\ results = <<>>
    /\ returned = {}
    /\ nmut = 0

\* load() is entered: merged = {}
LoadBegin ==
    /\ pc = "idle"
    /\ heap' = Append(heap, EmptyDict)
    /\ merged' = Len(heap) + 1
    /\ idx' = 1
    /\ pc' = "fold"
    /\ cfg' = 0
    /\ calls' = [i \in 1..Len(sources) |-> 0]
    /\ outcome' = [i \in 1..Len(sources) |-> "unread"]
    /\ vcalls' = 0
    /\ err' = NoError
    /\ results' = <<>>
    /\ returned' = {}
    /\ UNCHANGED <<callerData, sources, schema, jsonschemaInstalled, nmut, varsMerge, varsDump, varsFile, varsText>>

\* One turn of "for source in self._sources".
LoadSource ==
    /\ pc = "fold"
    /\ idx <= Len(sources)
    /\ LET r == Source_load(heap, sources[idx])
           d == IF r.raised THEN "propagate" ELSE load_dispatch(r.heap, r.val)
       IN /\ calls' = [calls EXCEPT ![idx] = @ + 1]
          /\ IF d = "propagate"
             THEN /\ heap' = r.heap
                  /\ pc' = "failed"
                  /\ err' = [kind |-> "ConfigurationError", origin |-> "source",
                             source |-> idx]
                  /\ outcome' = [outcome EXCEPT ![idx] = "raised"]
                  /\ UNCHANGED <<merged, idx, results>>
             ELSE IF d = "continue"
             THEN /\ heap' = r.heap
                  /\ idx' = idx + 1
                  /\ outcome' = [outcome EXCEPT ![idx] =
                         IF r.val = None THEN "absent" ELSE "nonmapping"]
                  /\ UNCHANGED <<merged, pc, err, results>>
             ELSE IF d = "raise"
             THEN /\ heap' = r.heap
                  /\ pc' = "failed"
                  /\ err' = [kind |-> "ConfigurationError", origin |-> "non-mapping",
                             source |-> idx]
                  /\ outcome' = [outcome EXCEPT ![idx] = "nonmapping"]
                  /\ UNCHANGED <<merged, idx, results>>
             ELSE LET m == load_merge(r.heap, merged, r.val.v)
                  IN /\ heap' = m.heap
                     /\ merged' = m.ref
                     /\ idx' = idx + 1
                     /\ outcome' = [outcome EXCEPT ![idx] = "mapping"]
                     /\ results' = Append(results, Flat(r.heap, r.val))
                     /\ UNCHANGED <<pc, err>>
    /\ UNCHANGED <<callerData, sources, schema, jsonschemaInstalled, cfg, vcalls,
                   returned, nmut, varsMerge, varsDump, varsFile, varsText>>

\* validate_config(merged, self._schema)
LoadValidate ==
    /\ pc = "fold"
    /\ idx > Len(sources)
    /\ vcalls' = vcalls + 1
    /\ LET v == validate_config(Flat(heap, Ref(merged)), schema, jsonschemaInstalled)
       IN IF v = "ok"
          THEN /\ pc' = "validated"
               /\ err' = err
          ELSE /\ pc' = "failed"
               /\ err' = [kind |-> v, origin |-> "validation", source |-> 0]
    /\ UNCHANGED <<heap, callerData, sources, schema, jsonschemaInstalled, idx, merged,
                   cfg, calls, outcome, results, returned, nmut, varsMerge, varsDump, varsFile, varsText>>

\* return Config(merged)
LoadReturn ==
    /\ pc = "validated"
    /\ LET c == Config_init(heap, merged)
       IN /\ heap' = c.heap
          /\ cfg' = c.ref
          /\ returned' = Flat(c.heap, Ref(c.ref))
    /\ pc' = "done"
    /\ UNCHANGED <<callerData, sources, schema, jsonschemaInstalled, idx, merged,
                   calls, outcome, vcalls, err, results, nmut, varsMerge, varsDump, varsFile, varsText>>

\* The caller writes to a mapping it gave to a DictSource, at the top level
\* or in a nested mapping: d[k] = 9.
CallerSetItem ==
    /\ pc = "done"
    /\ nmut < MaxMutations
    /\ \E s \in 1..Len(sources) :
        /\ callerData[s] # 0
        /\ \E o \in Reach(heap, callerData[s]), k \in Keys :
            /\ heap[o].kind = "map"
            /\ heap' = [heap EXCEPT ![o].items[k] = IntVal(9)]
    /\ nmut' = nmut + 1
    /\ UNCHANGED <<callerData, sources, schema, jsonschemaInstalled, pc, idx, merged,
                   cfg, calls, outcome, vcalls, err, results, returned, varsMerge, varsDump, varsFile, varsText>>

\* The caller appends to a list inside a mapping it gave to a DictSource.
CallerListAppend ==
    /\ pc = "done"
    /\ nmut < MaxMutations
    /\ \E s \in 1..Len(sources) :
        /\ callerData[s] # 0
        /\ \E o \in Reach(heap, callerData[s]) :
            /\ heap[o].kind = "seq"
            /\ heap' = [heap EXCEPT ![o].elems = Append(@, 9)]
    /\ nmut' = nmut + 1
    /\ UNCHANGED <<callerData, sources, schema, jsonschemaInstalled, pc, idx, merged,
                   cfg, calls, outcome, vcalls, err, results, returned, varsMerge, varsDump, varsFile, varsText>>

Next ==
    \/ LoadBegin
    \/ LoadSource
    \/ LoadValidate
    \/ LoadReturn
    \/ CallerSetItem
    \/ CallerListAppend

Spec == InitManager /\ [][Next]_vars

(***************************************************************************)
(* Claims about ConfigManager.load                                         *)
(***************************************************************************)
EmptyTree == {<<<<>>, MapLeaf>>}
Prefixes(p) == {SubSeq(p, 1, n) : n \in 0..Len(p)}
LeafAt(t, p) == (CHOOSE n \in t : n[1] = p)[2]

\* Node <<p, l>> of layer i is not replaced by a later layer: no later layer
\* holds a non-mapping at a proper prefix of p, or another node at p.
Survives(layers, i, p, l) ==
    \A j \in (i + 1)..Len(layers) :
        /\ \A q \in Prefixes(p) \ {p} :
               HasPath(layers[j], q) => LeafAt(layers[j], q) = MapLeaf
        /\ HasPath(layers[j], p) => LeafAt(layers[j], p) = l

\* The tree in which, at every path, the last layer to say something wins and
\* mappings are merged.
FoldValue(layers) ==
    {n \in UNION {layers[i] : i \in DOMAIN layers} :
        \E i \in DOMAIN layers : n \in layers[i] /\ Survives(layers, i, n[1], n[2])}

\* The values of the mappings the DictSources hold, in registration order.
RECURSIVE SourceValues(_)
SourceValues(i) ==
    IF i > Len(sources) THEN <<>>
    ELSE IF sources[i].kind = "dict"
    THEN <<Flat(heap, Ref(sources[i].data))>> \o SourceValues(i + 1)
    ELSE SourceValues(i + 1)

\* C1: load() returns the left fold of deep_merge from {} over the sources'
\* results in registration order, None results skipped: at every path the last
\* source's scalar or sequence stands, mappings are merged, and with every
\* source absent the result is the empty configuration.
C1_LoadIsFold ==
    pc = "done" =>
        /\ returned = FoldValue(<<EmptyTree>> \o results)
        /\ nmut = 0 => results = SourceValues(1)
        /\ (\A s \in 1..Len(sources) : outcome[s] = "absent") => returned = EmptyTree

\* C1 witness: two mappings were folded into a tree that is neither of them,
\* with a scalar of the first replaced by the second.
C1_Witness ==
    /\ pc = "done"
    /\ Len(results) = 2
    /\ returned # results[1]
    /\ returned # results[2]
    /\ \E n \in results[1] : n[2] # MapLeaf /\ n \notin returned

\* C4: after load() returned a Config, no write of the caller to a mapping it
\* gave to a DictSource (top level, nested mapping or nested list) changes a
\* value read from the Config.
C4_ConfigIsPrivateCopy ==
    pc = "done" => Flat(heap, Ref(cfg)) = returned

\* C8: load() returns a Config only when every source's load() completed, none
\* returned a non-mapping and the merged tree passed validation (no schema
\* always passes); otherwise it raises ConfigurationError and no Config exists.
C8_NoPartialSuccess ==
    /\ (cfg # 0) <=> (pc = "done")
    /\ pc = "done" =>
        /\ \A s \in 1..Len(sources) : calls[s] = 1 /\ outcome[s] \in {"absent", "mapping"}
        /\ vcalls = 1
        /\ schema.present => (jsonschemaInstalled /\ schema.required \subseteq TopKeys(returned))
        /\ err = NoError
    /\ pc = "failed" =>
        /\ cfg = 0
        /\ err.kind = "ConfigurationError"
        /\ err.origin = "source" => outcome[err.source] = "raised"
        /\ err.origin = "non-mapping" => outcome[err.source] = "nonmapping"
        /\ err.origin = "validation" =>
              /\ schema.present
              /\ ~(jsonschemaInstalled
                     /\ schema.required \subseteq TopKeys(Flat(heap, Ref(merged))))

\* C8 witness: every source loaded, the schema rejected the merged tree, and
\* load() raised without a Config.
C8_Witness ==
    /\ pc = "failed"
    /\ err.origin = "validation"
    /\ jsonschemaInstalled
    /\ Len(results) >= 1
    /\ cfg = 0

\* C9: when a source returns a value that is neither None nor a mapping, load()
\* raises a ConfigurationError naming that source at once: no later source is
\* loaded and the validator is not called.
C9_NonMappingFailsFast ==
    \A s \in 1..Len(sources) :
        outcome[s] = "nonmapping" =>
            /\ pc = "failed"
            /\ err = [kind |-> "ConfigurationError", origin |-> "non-mapping", source |-> s]
            /\ \A t \in (s + 1)..Len(sources) : calls[t] = 0
            /\ vcalls = 0

\* C9 witness: the first of two sources returned 42 and load() has failed.
C9_Witness ==
    /\ pc = "failed"
    /\ Len(sources) >= 2
    /\ outcome[1] = "nonmapping"
    /\ sources[2].kind = "dict"

(***************************************************************************)
(* sources.py: FileSource.dump and RawSource.dump, write to a temporary    *)
(* sibling and rename it onto the target                                   *)
(*                                                                         *)
(* The file system holds the two directory entries the writers touch.  A   *)
(* file is an inode: open(path, "w") truncates the inode the name refers   *)
(* to, or creates one; every writer writes at the offset of its own open   *)
(* file; os.replace moves the directory entry.  Any system call may fail.  *)
(***************************************************************************)
\* mode & 0o777 keeps the low nine bits
PermissionBits == 512
safe_mode(m) == m % PermissionBits

\* 0o644, the mode of a newly created file under the usual umask
DefaultMode == 6 * 64 + 4 * 8 + 4

ModeNone == [given |-> FALSE, bits |-> 0]
ModeOf(b) == [given |-> TRUE, bits |-> b]
\* file_mode: None, 0o600, 0o4755
FileModes == {ModeNone, ModeOf(6 * 64), ModeOf(4 * 512 + 7 * 64 + 5 * 8 + 5)}

\* The payload of dump p, in the chunks its write() calls carry; the content
\* the target had before any dump is the payload of dump 0.
Payload(p) == [i \in 1..NChunks |-> <<p, i>>]
OldContent == Payload(0)
Hole == <<0, 0>>

\* write() at offset pos of a file
WriteAt(c, pos, x) ==
    IF pos <= Len(c) THEN [c EXCEPT ![pos] = x]
    ELSE c \o [i \in 1..(pos - 1 - Len(c)) |-> Hole] \o <<x>>

\* Plausible bug: the payload is written to the target itself.
tmp_name_is_target == "target"

\* tmp_path = self._path.with_suffix(self._path.suffix + ".tmp")
tmp_name == "tmp"

\* Plausible bug: the temporary file is copied onto the target and stays.
replace_by_copy(names, src, dst) == [names EXCEPT ![dst] = names[src]]

\* tmp_path.replace(self._path): os.replace
replace(names, src, dst) ==
    IF src = dst THEN names ELSE [names EXCEPT ![dst] = names[src], ![src] = 0]

\* _apply_file_mode(path, mode): os.chmod(path, mode & 0o777)
apply_file_mode(inodes, id, mode) ==
    IF ~mode.given THEN inodes ELSE [inodes EXCEPT ![id].mode = safe_mode(mode.bits)]

\* What a dump() is called with and meets:
\*   kind    "file" (FileSource) or "raw" (RawSource)
\*   mode    RawSource's file_mode
\*   ser     how serialization goes: "ok"; "unsupported" (extension); "before"
\*           (it raises before the temporary file is opened: INI's non-scalar
\*           check, a missing tomli_w or PyYAML); "midway" (json.dump or
\*           yaml.safe_dump raises on a value after part of the text is out)
\*   typeOk  whether RawSource's data has the type of its mode
DumpArgs ==
    {[kind |-> "file", mode |-> ModeNone, ser |-> sr, typeOk |-> TRUE]
        : sr \in {"ok", "unsupported", "before", "midway"}}
    \cup {[kind |-> "raw", mode |-> m, ser |-> "ok", typeOk |-> ty]
        : m \in FileModes, ty \in BOOLEAN}

NoFile == [exists |-> FALSE, content |-> <<>>]
IdleProc ==
    [pc |-> "idle", kind |-> "none", mode |-> ModeNone, ser |-> "ok", fd |-> 0, pos |-> 0,
     before |-> NoFile, dirBefore |-> FALSE, failedAt |-> "none", exc |-> "none"]

\* What a reader of the target path gets.
TargetState ==
    IF fsNames["target"] = 0 THEN NoFile
    ELSE [exists |-> TRUE, content |-> fsInodes[fsNames["target"]].content]

Begun(p) == procs[p].pc # "idle"
Running(p) == procs[p].pc \notin {"idle", "returned", "failed"}

InitFiles(conc) ==
    /\ MergeUnused
    /\ ManagerUnused
    /\ FileUnused
    /\ TextUnused
    /\ heap = <<>>
    /\ concurrent = conc
    /\ procs = [p \in 1..MaxDumps |-> IdleProc]
    /\ \E d \in BOOLEAN, e \in BOOLEAN :
        /\ e => d
        /\ fsDir = d
        /\ fsInodes = IF e THEN <<[content |-> OldContent, mode |-> DefaultMode]>> ELSE <<>>
        /\ fsNames = [target |-> IF e THEN 1 ELSE 0, tmp |-> 0]

Fail(p, at, exc) ==
    procs' = [procs EXCEPT ![p].pc = "failed", ![p].failedAt = at, ![p].exc = exc]

\* Plausible bug: the mode is applied to the final file only.
AfterWrite_without_chmod(pr) == "rename"

AfterWrite(pr) == IF pr.mode.given THEN "chmod_tmp" ELSE "rename"
AfterRename(pr) == IF pr.mode.given THEN "chmod_final" ELSE "returned"

\* dump() is called; RawSource checks the type of data first.
DumpBegin(p) ==
    /\ procs[p].pc = "idle"
    /\ IF p = 1 THEN TRUE ELSE Begun(p - 1)
    /\ IF concurrent THEN TRUE ELSE \A q \in 1..MaxDumps : ~Running(q)
    /\ \E a \in DumpArgs :
        procs' = [procs EXCEPT ![p] =
            [pc |-> IF a.typeOk THEN "mkdir" ELSE "failed",
             kind |-> a.kind, mode |-> a.mode, ser |-> a.ser, fd |-> 0, pos |-> 0,
             before |-> TargetState, dirBefore |-> fsDir,
             failedAt |-> IF a.typeOk THEN "none" ELSE "typecheck",
             exc |-> IF a.typeOk THEN "none" ELSE "TypeError"]]
    /\ UNCHANGED <<fsDir, fsNames, fsInodes, concurrent, heap, varsMerge, varsManager, varsFile, varsText>>

\* self._path.parent.mkdir(parents=True, exist_ok=True), then, in FileSource,
\* the choice of the format and whatever the serializer does before it opens
\* the temporary file.
DumpMkdir(p) ==
    /\ procs[p].pc = "mkdir"
    /\ \/ /\ fsDir' = TRUE
          /\ IF procs[p].ser \in {"unsupported", "before"}
             THEN Fail(p, "serialize", "ConfigurationError")
             ELSE procs' = [procs EXCEPT ![p].pc = "open"]
       \/ /\ ~fsDir
          /\ Fail(p, "mkdir", "OSError")
          /\ UNCHANGED fsDir
    /\ UNCHANGED <<fsNames, fsInodes, concurrent, heap, varsMerge, varsManager, varsFile, varsText>>

\* tmp_path.open("w")
DumpOpen(p) ==
    /\ procs[p].pc = "open"
    /\ \/ /\ fsNames[tmp_name] # 0
          /\ fsInodes' = [fsInodes EXCEPT ![fsNames[tmp_name]].content = <<>>]
          /\ procs' = [procs EXCEPT ![p].pc = "write", ![p].fd = fsNames[tmp_name],
                                    ![p].pos = 1]
          /\ UNCHANGED fsNames
       \/ /\ fsNames[tmp_name] = 0
          /\ fsInodes' = Append(fsInodes, [content |-> <<>>, mode |-> DefaultMode])
          /\ fsNames' = [fsNames EXCEPT ![tmp_name] = Len(fsInodes) + 1]
          /\ procs' = [procs EXCEPT ![p].pc = "write", ![p].fd = Len(fsInodes) + 1,
                                    ![p].pos = 1]
       \/ /\ Fail(p, "open", "ConfigurationError")
          /\ UNCHANGED <<fsNames, fsInodes>>
    /\ UNCHANGED <<fsDir, concurrent, heap, varsMerge, varsManager, varsFile, varsText>>

\* f.write(payload), one write() system call at a time; the file is closed
\* after the last one, or when an exception leaves the with block.
DumpWrite(p) ==
    /\ procs[p].pc = "write"
    /\ LET pr == procs[p]
       IN \/ /\ ~(pr.ser = "midway" /\ pr.pos > 1)
             /\ fsInodes' = [fsInodes EXCEPT ![pr.fd].content = WriteAt(@, pr.pos, <<p, pr.pos>>)]
             /\ procs' = [procs EXCEPT ![p].pos = pr.pos + 1,
                             ![p].pc = IF pr.pos = NChunks THEN AfterWrite(pr) ELSE "write"]
          \/ /\ pr.ser = "midway"
             /\ pr.pos > 1
             /\ Fail(p, "serialize", "TypeError")
             /\ UNCHANGED fsInodes
          \/ /\ Fail(p, "write", "ConfigurationError")
             /\ UNCHANGED fsInodes
    /\ UNCHANGED <<fsDir, fsNames, concurrent, heap, varsMerge, varsManager, varsFile, varsText>>

\* _apply_file_mode(tmp_path, self._file_mode)
DumpChmodTmp(p) ==
    /\ procs[p].pc = "chmod_tmp"
    /\ \/ /\ fsNames[tmp_name] # 0
          /\ fsInodes' = apply_file_mode(fsInodes, fsNames[tmp_name], procs[p].mode)
          /\ procs' = [procs EXCEPT ![p].pc = "rename"]
       \/ /\ Fail(p, "chmod_tmp", "ConfigurationError")
          /\ UNCHANGED fsInodes
    /\ UNCHANGED <<fsDir, fsNames, concurrent, heap, varsMerge, varsManager, varsFile, varsText>>

\* tmp_path.replace(self._path)
DumpRename(p) ==
    /\ procs[p].pc = "rename"
    /\ \/ /\ fsNames[tmp_name] # 0
          /\ fsNames' = replace(fsNames, tmp_name, "target")
          /\ procs' = [procs EXCEPT ![p].pc = AfterRename(procs[p])]
       \/ /\ Fail(p, "rename", "ConfigurationError")
          /\ UNCHANGED fsNames
    /\ UNCHANGED <<fsDir, fsInodes, concurrent, heap, varsMerge, varsManager, varsFile, varsText>>

\* _apply_file_mode(self._path, self._file_mode)
DumpChmodFinal(p) ==
    /\ procs[p].pc = "chmod_final"
    /\ \/ /\ fsNames["target"] # 0
          /\ fsInodes' = apply_file_mode(fsInodes, fsNames["target"], procs[p].mode)
          /\ procs' = [procs EXCEPT ![p].pc = "returned"]
       \/ /\ Fail(p, "chmod_final", "ConfigurationError")
          /\ UNCHANGED fsInodes
    /\ UNCHANGED <<fsDir, fsNames, concurrent, heap, varsMerge, varsManager, varsFile, varsText>>

NextDump ==
    \E p \in 1..MaxDumps :
        \/ DumpBegin(p)
        \/ DumpMkdir(p)
        \/ DumpOpen(p)
        \/ DumpWrite(p)
        \/ DumpChmodTmp(p)
        \/ DumpRename(p)
        \/ DumpChmodFinal(p)

\* One dump() at a time on the target path.
SpecDump == InitFiles(FALSE) /\ [][NextDump]_vars

\* dump() calls from several threads or processes, interleaved at every step.
SpecRace == InitFiles(TRUE) /\ [][NextDump]_vars

(***************************************************************************)
(* Claims about dump()                                                     *)
(***************************************************************************)
\* The dump() begun last.
IsLatest(p) == Begun(p) /\ \A q \in (p + 1)..MaxDumps : ~Begun(q)
NewFile(p) == [exists |-> TRUE, content |-> Payload(p)]
CompleteContents == {OldContent} \cup {Payload(p) : p \in 1..MaxDumps}
SameKind == \A p \in 1..MaxDumps, q \in 1..MaxDumps :
                (Begun(p) /\ Begun(q)) => procs[p].kind = procs[q].kind

\* C5: with dump() calls of one kind overlapping on one target path, a reader
\* of the target sees at every moment a complete file: the previous content or
\* the whole payload of one of the dumps.
C5_ReaderSeesCompleteFile ==
    (SameKind /\ TargetState.exists) => TargetState.content \in CompleteContents

\* C6 as stated: during a dump() with no other writer, whatever step fails, the
\* target holds its complete previous content (or is missing as before) or the
\* complete new content, and a failed dump leaves the previous content.
C6_FailedDumpKeepsPrevious ==
    \A p \in 1..MaxDumps :
        IsLatest(p) =>
            /\ TargetState \in {procs[p].before, NewFile(p)}
            /\ procs[p].pc = "failed" => TargetState = procs[p].before

\* C6 as amended: the target holds the complete previous content or the
\* complete new content at every step, and a failed dump leaves the previous
\* content unless the step that failed is the permission change of the final
\* file, after the rename: then the target holds the complete new content.
C6_TargetOldOrNew ==
    \A p \in 1..MaxDumps :
        IsLatest(p) =>
            /\ TargetState \in {procs[p].before, NewFile(p)}
            /\ (procs[p].pc = "failed" /\ procs[p].failedAt # "chmod_final")
                   => TargetState = procs[p].before
            /\ (procs[p].pc = "failed" /\ procs[p].failedAt = "chmod_final")
                   => TargetState = NewFile(p)

\* C6 witness: a write failed after part of the payload reached the temporary
\* file, over a target that existed; the orphan is left behind.
C6_Witness ==
    \E p \in 1..MaxDumps :
        /\ IsLatest(p)
        /\ procs[p].pc = "failed"
        /\ procs[p].failedAt = "write"
        /\ procs[p].pos > 1
        /\ procs[p].before.exists
        /\ fsNames["tmp"] # 0
        /\ fsInodes[fsNames["tmp"]].content # Payload(p)

\* C7: when a dump() has returned, the target holds exactly the new content
\* and there is no temporary sibling, whether or not the target or its parent
\* directories existed before.
C7_ReturnedDumpIsInPlace ==
    \A p \in 1..MaxDumps :
        (IsLatest(p) /\ procs[p].pc = "returned") =>
            /\ TargetState = NewFile(p)
            /\ fsNames["tmp"] = 0

\* C7 witness: a dump() returned where neither the target nor its directory
\* had existed.
C7_Witness ==
    \E p \in 1..MaxDumps :
        /\ IsLatest(p)
        /\ procs[p].pc = "returned"
        /\ ~procs[p].before.exists
        /\ ~procs[p].dirBefore

(***************************************************************************)
(* sources.py: FileSource.load                                             *)
(*                                                                         *)
(* A file holds a document, known by what its text is at the top level:    *)
(*   "mapping"   an object / a table / sections, with a tree               *)
(*   "sequence"  such as [1, 2]        "scalar"  such as 42                *)
(*   "null"      null (JSON), ~ (YAML) "empty"   no text at all            *)
(*   "malformed" text the format's grammar rejects                         *)
(***************************************************************************)
Suffixes == {".json", ".JSON", ".toml", ".ini", ".cfg", ".conf", ".yaml", ".yml", ".txt", ""}

\* Plausible bug: the suffix is compared as it is written.
Lower_as_written(sfx) == sfx

\* str.lower() on the suffixes above
Lower(sfx) == IF sfx = ".JSON" THEN ".json" ELSE sfx

DocTrees == {EmptyTree, {<<<<>>, MapLeaf>>, <<<<"a">>, IntLeaf(1)>>}}
Docs ==
    {[top |-> "mapping", tree |-> t] : t \in DocTrees}
        \cup {[top |-> k, tree |-> {}] : k \in {"sequence", "scalar", "null", "empty", "malformed"}}

\* A parser's outcome: it raises, or returns a value of some top-level kind.
ParseError == [raised |-> TRUE, val |-> "none", tree |-> {}]
Parsed(kind, t) == [raised |-> FALSE, val |-> kind, tree |-> t]

\* json.load(f): the value of any JSON text; no text is not JSON.
json_load(doc) ==
    IF doc.top \in {"malformed", "empty"} THEN ParseError
    ELSE IF doc.top = "null" THEN Parsed("none", {})
    ELSE Parsed(doc.top, doc.tree)

\* yaml.safe_load(f): None for an empty document
yaml_safe_load(doc) ==
    IF doc.top = "malformed" THEN ParseError
    ELSE IF doc.top \in {"null", "empty"} THEN Parsed("none", {})
    ELSE Parsed(doc.top, doc.tree)

\* tomllib.load(f): a TOML document is a table; a bare value is not TOML.
tomllib_load(doc) ==
    IF doc.top = "mapping" THEN Parsed("mapping", doc.tree)
    ELSE IF doc.top = "empty" THEN Parsed("mapping", EmptyTree)
    ELSE ParseError

\* ConfigParser.read_file(f) and the loop over parser.sections()
configparser_read(doc) ==
    IF doc.top = "mapping" THEN Parsed("mapping", doc.tree)
    ELSE IF doc.top = "empty" THEN Parsed("mapping", EmptyTree)
    ELSE ParseError

Raises(e) == [raised |-> TRUE, err |-> e, val |-> "none", tree |-> {}, ext |-> ""]
Returns(kind, t) == [raised |-> FALSE, err |-> "none", val |-> kind, tree |-> t, ext |-> ""]
\* The error whose message carries "(extension '{suffix}')"
RaisesUnsupported(suffix) ==
    [raised |-> TRUE, err |-> "unsupported format", val |-> "none", tree |-> {}, ext |-> suffix]

\* FileSource._load_json: return json.load(f)
FileSource_load_json(doc) ==
    LET r == json_load(doc)
    IN IF r.raised THEN Raises("invalid content") ELSE Returns(r.val, r.tree)

\* FileSource._load_toml
FileSource_load_toml(doc, available) ==
    IF ~available THEN Raises("capability unavailable")
    ELSE LET r == tomllib_load(doc)
         IN IF r.raised THEN Raises("invalid content") ELSE Returns(r.val, r.tree)

\* FileSource._load_ini
FileSource_load_ini(doc) ==
    LET r == configparser_read(doc)
    IN IF r.raised THEN Raises("invalid content") ELSE Returns(r.val, r.tree)

\* FileSource._load_yaml
FileSource_load_yaml(doc, available) ==
    IF ~available THEN Raises("capability unavailable")
    ELSE LET r == yaml_safe_load(doc)
         IN IF r.raised THEN Raises("invalid content")
            ELSE IF r.val = "none" THEN Returns("mapping", EmptyTree)
            ELSE IF r.val # "mapping" THEN Raises("top level not a mapping")
            ELSE Returns(r.val, r.tree)

\* FileSource.load; every error is a ConfigurationError. A returned value of
\* kind "none" is None, which is ABSENT.
FileSource_load(sfx, optional, exists, doc, toml, yaml) ==
    IF ~exists
    THEN IF optional THEN Returns("none", {}) ELSE Raises("not found")
    ELSE LET suffix == Lower(sfx)
         IN IF suffix = ".json" THEN FileSource_load_json(doc)
            ELSE IF suffix = ".toml" THEN FileSource_load_toml(doc, toml)
            ELSE IF suffix \in {".ini", ".cfg", ".conf"} THEN FileSource_load_ini(doc)
            ELSE IF suffix \in {".yaml", ".yml"} THEN FileSource_load_yaml(doc, yaml)
            ELSE RaisesUnsupported(suffix)

\* Plausible bug: a missing file is an error for every source.
RawSource_load_ignores_optional(optional, exists, readable) ==
    IF ~exists THEN Raises("not found")
    ELSE IF readable THEN Returns("content", {})
    ELSE Raises("could not read")

\* RawSource.load(): the content in either mode, text or binary
RawSource_load(optional, exists, readable) ==
    IF ~exists
    THEN IF optional THEN Returns("none", {}) ELSE Raises("not found")
    ELSE IF readable THEN Returns("content", {})
    ELSE Raises("could not read")

InitFileSource ==
    /\ MergeUnused
    /\ ManagerUnused
    /\ DumpUnused
    /\ TextUnused
    /\ heap = <<>>
    /\ fSuffix \in Suffixes
    /\ fOptional \in BOOLEAN
    /\ fExists = FALSE
    /\ fDoc = NoDoc
    /\ tomlAvailable \in BOOLEAN
    /\ yamlAvailable \in BOOLEAN
    /\ fLoad = NotLoaded
    /\ rawLoad = NotLoaded

\* Something outside writes the file.
FileWritten ==
    /\ \E d \in Docs : fDoc' = d
    /\ fExists' = TRUE
    /\ UNCHANGED <<fSuffix, fOptional, tomlAvailable, yamlAvailable, fLoad, rawLoad,
                   heap, varsMerge, varsManager, varsDump, varsText>>

\* Something outside removes the file.
FileRemoved ==
    /\ fExists
    /\ fExists' = FALSE
    /\ fDoc' = NoDoc
    /\ UNCHANGED <<fSuffix, fOptional, tomlAvailable, yamlAvailable, fLoad, rawLoad,
                   heap, varsMerge, varsManager, varsDump, varsText>>

\* source.load()
FileLoad ==
    /\ LET r == FileSource_load(fSuffix, fOptional, fExists, fDoc, tomlAvailable,
                                yamlAvailable)
       IN fLoad' = [called |-> TRUE, exists |-> fExists, doc |-> fDoc, raised |-> r.raised,
                    err |-> r.err, val |-> r.val, tree |-> r.tree, ext |-> r.ext]
    /\ UNCHANGED <<fSuffix, fOptional, fExists, fDoc, tomlAvailable, yamlAvailable, rawLoad,
                   heap, varsMerge, varsManager, varsDump, varsText>>

\* raw.load() of a RawSource on the path, optional as the FileSource is; the
\* read may fail.
RawLoad ==
    /\ \E readable \in BOOLEAN :
        LET r == RawSource_load(fOptional, fExists, readable)
        IN rawLoad' = [called |-> TRUE, exists |-> fExists, doc |-> fDoc, raised |-> r.raised,
                       err |-> r.err, val |-> r.val, tree |-> r.tree, ext |-> r.ext]
    /\ UNCHANGED <<fSuffix, fOptional, fExists, fDoc, tomlAvailable, yamlAvailable, fLoad,
                   heap, varsMerge, varsManager, varsDump, varsText>>

NextFileSource == FileWritten \/ FileRemoved \/ FileLoad \/ RawLoad

SpecFileSource == InitFileSource /\ [][NextFileSource]_vars

\* C10: for a JSON, YAML or TOML file that exists, load() returns only a
\* mapping: a top-level scalar (null included, for JSON) or sequence makes it
\* raise a ConfigurationError, and ABSENT is returned only for the missing file
\* of an optional source.
C10_FileLoadReturnsOnlyMappings ==
    fLoad.called =>
        /\ (fLoad.exists /\ Lower(fSuffix) \in {".json", ".yaml", ".yml", ".toml"}) =>
            /\ ~fLoad.raised => fLoad.val = "mapping"
            /\ (\/ fLoad.doc.top \in {"scalar", "sequence"}
                \/ (fLoad.doc.top = "null" /\ Lower(fSuffix) = ".json")) => fLoad.raised
        /\ (~fLoad.raised /\ fLoad.val = "none") => (~fLoad.exists /\ fOptional)

(***************************************************************************)
(* Text.  A Python str is a sequence of one-character strings.             *)
(***************************************************************************)
Whitespace == {" ", "\t", "\n"}
Digits == {"0", "1", "2", "3", "4", "5", "6", "7", "8", "9"}
Signs == {"+", "-"}

DigitVal(c) ==
    CASE c = "0" -> 0 [] c = "1" -> 1 [] c = "2" -> 2 [] c = "3" -> 3 [] c = "4" -> 4
      [] c = "5" -> 5 [] c = "6" -> 6 [] c = "7" -> 7 [] c = "8" -> 8 [] c = "9" -> 9

\* str.lower() on the letters that occur
LowerChar(c) ==
    CASE c = "A" -> "a" [] c = "B" -> "b" [] c = "E" -> "e" [] c = "F" -> "f"
      [] c = "I" -> "i" [] c = "K" -> "k" [] c = "N" -> "n" [] c = "O" -> "o"
      [] c = "P" -> "p" [] c = "R" -> "r" [] c = "S" -> "s" [] c = "T" -> "t"
      [] c = "U" -> "u" [] c = "Y" -> "y" [] OTHER -> c
lower(s) == [i \in 1..Len(s) |-> LowerChar(s[i])]

RECURSIVE lstrip(_)
lstrip(s) == IF Len(s) > 0 /\ Head(s) \in Whitespace THEN lstrip(Tail(s)) ELSE s
RECURSIVE rstrip(_)
rstrip(s) ==
    IF Len(s) > 0 /\ s[Len(s)] \in Whitespace THEN rstrip(SubSeq(s, 1, Len(s) - 1)) ELSE s
\* str.strip()
strip(s) == rstrip(lstrip(s))

RECURSIVE Pow10(_)
Pow10(k) == IF k = 0 THEN 1 ELSE 10 * Pow10(k - 1)

\* The first position of s that holds a character of cs, or 0.
RECURSIVE Find(_, _, _)
Find(s, cs, i) == IF i > Len(s) THEN 0 ELSE IF s[i] \in cs THEN i ELSE Find(s, cs, i + 1)

(***************************************************************************)
(* Python values of the scalar types                                       *)
(*   a float is n * 10^e with n not divisible by 10 (0.0 is n = 0, e = 0), *)
(*   or inf, -inf, nan, named in s                                         *)
(***************************************************************************)
PyBool(b) == [t |-> "bool", b |-> b, n |-> 0, e |-> 0, s |-> <<>>]
PyInt(n) == [t |-> "int", b |-> FALSE, n |-> n, e |-> 0, s |-> <<>>]
PyStr(s) == [t |-> "str", b |-> FALSE, n |-> 0, e |-> 0, s |-> s]
PyInf(neg) == [t |-> "float", b |-> neg, n |-> 0, e |-> 0, s |-> <<"i", "n", "f">>]
PyNan == [t |-> "float", b |-> FALSE, n |-> 0, e |-> 0, s |-> <<"n", "a", "n">>]
RECURSIVE PyFloat(_, _)
PyFloat(n, e) ==
    IF n = 0 THEN [t |-> "float", b |-> FALSE, n |-> 0, e |-> 0, s |-> <<>>]
    ELSE IF n % 10 = 0 THEN PyFloat(n \div 10, e + 1)
    ELSE [t |-> "float", b |-> FALSE, n |-> n, e |-> e, s |-> <<>>]

(***************************************************************************)
(* int(str) and float(str)                                                 *)
(***************************************************************************)
NotParsed == [ok |-> FALSE, n |-> 0, k |-> 0]

\* digitpart ::= digit (["_"] digit)*, read left to right; n is its value and
\* k the number of its digits.
RECURSIVE digitpart(_, _, _)
digitpart(s, afterDigit, acc) ==
    IF Len(s) = 0 THEN IF afterDigit THEN acc ELSE NotParsed
    ELSE IF Head(s) \in Digits
         THEN digitpart(Tail(s), TRUE,
                        [ok |-> TRUE, n |-> acc.n * 10 + DigitVal(Head(s)), k |-> acc.k + 1])
         ELSE IF Head(s) = "_" /\ afterDigit THEN digitpart(Tail(s), FALSE, acc)
         ELSE NotParsed
DigitPart(s) == digitpart(s, FALSE, [ok |-> TRUE, n |-> 0, k |-> 0])

Unsigned(s) == IF Len(s) > 0 /\ Head(s) \in Signs THEN Tail(s) ELSE s
SignOf(s) == IF Len(s) > 0 /\ Head(s) = "-" THEN -1 ELSE 1

\* int(raw): ValueError is ok = FALSE
py_int(raw) ==
    LET s == strip(raw)
        d == DigitPart(Unsigned(s))
    IN [ok |-> d.ok, n |-> SignOf(s) * d.n]

SpecialFloats ==
    {<<"i", "n", "f">>, <<"i", "n", "f", "i", "n", "i", "t", "y">>, <<"n", "a", "n">>}

\* float(raw): ValueError is ok = FALSE
py_float(raw) ==
    LET s == strip(raw)
        u == Unsigned(s)
        ePos == Find(u, {"e", "E"}, 1)
        mant == IF ePos = 0 THEN u ELSE SubSeq(u, 1, ePos - 1)
        expo == IF ePos = 0 THEN <<>> ELSE SubSeq(u, ePos + 1, Len(u))
        dot == Find(mant, {"."}, 1)
        ip == IF dot = 0 THEN mant ELSE SubSeq(mant, 1, dot - 1)
        fp == IF dot = 0 THEN <<>> ELSE SubSeq(mant, dot + 1, Len(mant))
        id == DigitPart(ip)
        fd == DigitPart(fp)
        xd == DigitPart(Unsigned(expo))
        mantOk == /\ Len(ip) = 0 \/ id.ok
                  /\ Len(fp) = 0 \/ fd.ok
                  /\ id.ok \/ fd.ok
        expOk == ePos = 0 \/ xd.ok
        x == IF ePos = 0 THEN 0 ELSE SignOf(expo) * xd.n
    IN IF lower(u) \in SpecialFloats
       THEN [ok |-> TRUE,
             val |-> IF lower(u) = <<"n", "a", "n">> THEN PyNan ELSE PyInf(SignOf(s) = -1)]
       ELSE IF mantOk /\ expOk
       THEN [ok |-> TRUE,
             val |-> PyFloat(SignOf(s) * (id.n * Pow10(fd.k) + fd.n), x - fd.k)]
       ELSE [ok |-> FALSE, val |-> NoValue]

(***************************************************************************)
(* sources.py: _parse_env_like_value                                       *)
(***************************************************************************)
TrueWords == {<<"t", "r", "u", "e">>, <<"y", "e", "s">>, <<"o", "n">>}
FalseWords == {<<"f", "a", "l", "s", "e">>, <<"n", "o">>, <<"o", "f", "f">>}

\* Plausible bug: the float rule comes before the integer rule.
parse_env_like_value_float_first(raw) ==
    LET lowered == lower(strip(raw))
    IN IF lowered \in TrueWords THEN PyBool(TRUE)
       ELSE IF lowered \in FalseWords THEN PyBool(FALSE)
       ELSE IF py_float(raw).ok THEN py_float(raw).val
       ELSE IF py_int(raw).ok THEN PyInt(py_int(raw).n)
       ELSE PyStr(raw)

parse_env_like_value(raw) ==
    LET lowered == lower(strip(raw))
    IN IF lowered \in TrueWords THEN PyBool(TRUE)
       ELSE IF lowered \in FalseWords THEN PyBool(FALSE)
       ELSE IF py_int(raw).ok THEN PyInt(py_int(raw).n)
       ELSE IF py_float(raw).ok THEN py_float(raw).val
       ELSE PyStr(raw)

\* The strings the coercion is tried on: every string over a small alphabet,
\* and the spellings the documentation names.
MaxText == 3
CoerceAlphabet == {" ", "+", "-", "1", "_", ".", "o", "N"}
TextsUpTo(n) == UNION {[1..k -> CoerceAlphabet] : k \in 0..n}
CoerceSamples ==
    {<<"t", "r", "u", "e">>, <<" ", "T", "R", "U", "E", " ">>, <<"Y", "e", "s">>,
     <<"f", "a", "l", "s", "e">>, <<"O", "F", "F">>, <<"4", "2">>, <<"0", "0", "4", "2">>,
     <<"3", ".", "1", "4">>, <<"h", "e", "l", "l", "o">>, <<" ", "h", "i", " ">>,
     <<"1", "e", "1">>, <<"1", "E", "-", "1">>, <<"1", "e">>, <<"e", "1">>,
     <<"n", "a", "n">>, <<"-", "i", "n", "f">>, <<"I", "n", "f", "i", "n", "i", "t", "y">>,
     <<"1", "_", "0", ".", "5">>, <<"1", "_", ".", "5">>, <<"2", ".", "5", "0">>,
     <<"1", ".", "5", "e", "1">>, <<"\n", "7", "\t">>, <<" ", "1", "_", "0", " ">>}
CoerceInputs == TextsUpTo(MaxText) \cup CoerceSamples

InitCoerce ==
    /\ MergeUnused
    /\ ManagerUnused
    /\ DumpUnused
    /\ FileUnused
    /\ IniUnused
    /\ EnvUnused
    /\ ReloadUnused
    /\ heap = <<>>
    /\ cRaw \in CoerceInputs
    /\ cOut = NoValue

\* _parse_env_like_value(raw)
Coerce ==
    /\ cOut = NoValue
    /\ cOut' = parse_env_like_value(cRaw)
    /\ UNCHANGED <<cRaw, heap, varsMerge, varsManager, varsDump, varsFile, varsIni, varsEnv,
                   varsReload>>

NextCoerce == Coerce

SpecCoerce == InitCoerce /\ [][NextCoerce]_vars

(***************************************************************************)
(* Claims about the coercion.  The literals are described by position, not *)
(* by the scan int() and float() make.                                     *)
(***************************************************************************)
\* An optional sign, then digits; with grouped, single underscores may stand
\* between two digits.
IntLiteral(t, grouped) ==
    \E k \in {0, 1} :
        /\ Len(t) > k
        /\ k = 1 => t[1] \in Signs
        /\ \A i \in (k + 1)..Len(t) :
            \/ t[i] \in Digits
            \/ /\ grouped
               /\ t[i] = "_"
               /\ i > k + 1
               /\ i < Len(t)
               /\ t[i - 1] \in Digits
               /\ t[i + 1] \in Digits

DigitsOf(t) == SelectSeq(t, LAMBDA c : c \in Digits)
RECURSIVE NumberOf(_)
NumberOf(ds) ==
    IF Len(ds) = 0 THEN 0
    ELSE DigitVal(ds[Len(ds)]) + 10 * NumberOf(SubSeq(ds, 1, Len(ds) - 1))
IntLiteralValue(t) == SignOf(t) * NumberOf(DigitsOf(t))

\* Where the mantissa of an unsigned float literal ends.
MantissaEnd(u) ==
    LET E == {i \in 1..Len(u) : u[i] \in {"e", "E"}}
    IN IF E = {} THEN Len(u) ELSE (CHOOSE i \in E : \A j \in E : i <= j) - 1

\* A decimal literal as float() takes it: digits with at most one point,
\* single underscores between digits, an optional exponent; or inf, infinity,
\* nan in any case; after an optional sign.
FloatLiteral(t) ==
    LET u == Unsigned(t)
        m == MantissaEnd(u)
        D == {i \in 1..m : u[i] = "."}
    IN \/ lower(u) \in SpecialFloats
       \/ /\ Cardinality(D) <= 1
          /\ \E i \in 1..m : u[i] \in Digits
          /\ \A i \in 1..m :
              \/ u[i] \in Digits
              \/ u[i] = "."
              \/ /\ u[i] = "_"
                 /\ i > 1
                 /\ i < m
                 /\ u[i - 1] \in Digits
                 /\ u[i + 1] \in Digits
          /\ m < Len(u) => IntLiteral(SubSeq(u, m + 2, Len(u)), TRUE)

FloatLiteralValue(t) ==
    LET u == Unsigned(t)
        m == MantissaEnd(u)
        D == {i \in 1..m : u[i] = "."}
        frac == Cardinality({i \in 1..m : u[i] \in Digits /\ \E d \in D : i > d})
        x == IF m < Len(u) THEN IntLiteralValue(SubSeq(u, m + 2, Len(u))) ELSE 0
    IN IF lower(u) = <<"n", "a", "n">> THEN PyNan
       ELSE IF lower(u) \in SpecialFloats THEN PyInf(SignOf(t) = -1)
       ELSE PyFloat(SignOf(t) * NumberOf(DigitsOf(SubSeq(u, 1, m))), x - frac)

\* What the four rules, taken in order, give for raw, an integer literal
\* being read from intText.
RulesInOrder(raw, intText, grouped) ==
    IF lower(strip(raw)) \in TrueWords THEN PyBool(TRUE)
    ELSE IF lower(strip(raw)) \in FalseWords THEN PyBool(FALSE)
    ELSE IF IntLiteral(intText, grouped) THEN PyInt(IntLiteralValue(intText))
    ELSE IF FloatLiteral(strip(raw)) THEN FloatLiteralValue(strip(raw))
    ELSE PyStr(raw)

\* C12 as stated: the rules apply in order, first match wins; an integer is an
\* input that is an optional sign followed by digits and nothing else.
C12_RulesInOrderPlainDigits ==
    cOut # NoValue => cOut = RulesInOrder(cRaw, cRaw, FALSE)

\* C12 as amended: the rules apply in order, first match wins; the integer
\* and float rules ignore surrounding whitespace and accept single underscores
\* between digits; everything else comes back as the original string.
C12_RulesInOrder ==
    cOut # NoValue => cOut = RulesInOrder(cRaw, strip(cRaw), TRUE)

\* C12 witness: an input with surrounding whitespace and a digit separator
\* came back as an integer.
C12_Witness ==
    /\ cOut.t = "int"
    /\ Len(cRaw) > Len(strip(cRaw))
    /\ \E i \in 1..Len(cRaw) : cRaw[i] = "_"

(***************************************************************************)
(* sources.py: FileSource._dump_ini and FileSource._load_ini               *)
(*                                                                         *)
(* A tree is the sequence of its items in dict order:                      *)
(*   <<[name |-> section, opts |-> <<[key |-> option, val |-> value]>>]>>  *)
(* with section and option names as text.  The file is its lines.          *)
(***************************************************************************)
PyList == [t |-> "list", b |-> FALSE, n |-> 0, e |-> 0, s |-> <<>>]
PyDict == [t |-> "dict", b |-> FALSE, n |-> 0, e |-> 0, s |-> <<>>]
PyNone == [t |-> "null", b |-> FALSE, n |-> 0, e |-> 0, s |-> <<>>]

DigitChar(d) ==
    CASE d = 0 -> "0" [] d = 1 -> "1" [] d = 2 -> "2" [] d = 3 -> "3" [] d = 4 -> "4"
      [] d = 5 -> "5" [] d = 6 -> "6" [] d = 7 -> "7" [] d = 8 -> "8" [] d = 9 -> "9"

\* str(n) of a natural number
RECURSIVE NatText(_)
NatText(n) == IF n < 10 THEN <<DigitChar(n)>> ELSE Append(NatText(n \div 10), DigitChar(n % 10))

\* the k low decimal digits of n, zeros in front
RECURSIVE PadText(_, _)
PadText(n, k) == IF k = 0 THEN <<>> ELSE Append(PadText(n \div 10, k - 1), DigitChar(n % 10))

Magnitude(n) == IF n < 0 THEN 0 - n ELSE n
MinusText(neg) == IF neg THEN <<"-">> ELSE <<>>

\* repr(float), in the range where it is written without an exponent
FloatText(v) ==
    IF Len(v.s) > 0 THEN MinusText(v.b) \o v.s
    ELSE IF v.e >= 0 THEN MinusText(v.n < 0) \o NatText(Magnitude(v.n) * Pow10(v.e)) \o <<".", "0">>
    ELSE MinusText(v.n < 0) \o NatText(Magnitude(v.n) \div Pow10(0 - v.e)) \o <<".">>
             \o PadText(Magnitude(v.n) % Pow10(0 - v.e), 0 - v.e)

\* str(value) of a scalar
str(v) ==
    CASE v.t = "str" -> v.s
      [] v.t = "bool" -> IF v.b THEN <<"T", "r", "u", "e">> ELSE <<"F", "a", "l", "s", "e">>
      [] v.t = "int" -> MinusText(v.n < 0) \o NatText(Magnitude(v.n))
      [] v.t = "float" -> FloatText(v)

\* isinstance(value, (str, int, float, bool))
IsScalar(v) == v.t \in {"str", "int", "float", "bool"}

DefaultSection == <<"D", "E", "F", "A", "U", "L", "T">>

\* RawConfigParser.optionxform
optionxform(key) == lower(key)

\* section[key] = text on the options of a section: a dict assignment
SetOption(opts, key, text) ==
    IF \E i \in 1..Len(opts) : opts[i].key = key
    THEN [i \in 1..Len(opts) |-> IF opts[i].key = key THEN [key |-> key, text |-> text]
                                                      ELSE opts[i]]
    ELSE Append(opts, [key |-> key, text |-> text])

DumpRaises(exc, path) == [raised |-> TRUE, exc |-> exc, path |-> path, parser |-> <<>>]

\* The inner loop of _dump_ini over section_value.items()
RECURSIVE dump_ini_options(_, _, _)
dump_ini_options(name, items, opts) ==
    IF Len(items) = 0 THEN [raised |-> FALSE, exc |-> "none", path |-> <<>>, parser |-> opts]
    ELSE IF ~IsScalar(Head(items).val)
         THEN DumpRaises("ConfigurationError", name \o <<".">> \o Head(items).key)
         ELSE dump_ini_options(name, Tail(items),
                               SetOption(opts, optionxform(Head(items).key),
                                         str(Head(items).val)))

\* parser.add_section(name) raises ValueError for the default section's name
add_section_raises(name) == name = DefaultSection

\* The loop of _dump_ini over data.items(): the parser it fills, or the
\* exception it raises.
RECURSIVE dump_ini_sections(_, _)
dump_ini_sections(tree, parser) ==
    IF Len(tree) = 0 THEN [raised |-> FALSE, exc |-> "none", path |-> <<>>, parser |-> parser]
    ELSE IF add_section_raises(Head(tree).name) THEN DumpRaises("ValueError", <<>>)
    ELSE LET r == dump_ini_options(Head(tree).name, Head(tree).opts, <<>>)
         IN IF r.raised THEN r
            ELSE dump_ini_sections(Tail(tree),
                                   Append(parser, [name |-> Head(tree).name, opts |-> r.parser]))

\* parser.write(f): the lines of one section
RECURSIVE OptionLines(_)
OptionLines(opts) ==
    IF Len(opts) = 0 THEN <<>>
    ELSE <<Head(opts).key \o <<" ", "=", " ">> \o Head(opts).text>> \o OptionLines(Tail(opts))

RECURSIVE write(_)
write(parser) ==
    IF Len(parser) = 0 THEN <<>>
    ELSE <<(<<"[">> \o Head(parser).name \o <<"]">>)>> \o OptionLines(Head(parser).opts)
             \o <<(<<>>)>> \o write(Tail(parser))

\* The last position of s that holds c, or 0.
RECURSIVE FindLast(_, _, _)
FindLast(s, c, i) == IF i = 0 THEN 0 ELSE IF s[i] = c THEN i ELSE FindLast(s, c, i - 1)

HasOption(opts, key) == \E i \in 1..Len(opts) : opts[i].key = key
HasSection(secs, name) == \E i \in 1..Len(secs) : secs[i].name = name

\* What ConfigParser has read so far: the sections in file order, the options
\* of the default section, the section the next option goes to (0: none yet,
\* -1: the default section), and whether a line was in error.
NothingRead == [sections |-> <<>>, defaults |-> <<>>, cur |-> 0, err |-> FALSE]

ReadOption(st, key, text) ==
    IF st.cur = 0 THEN [st EXCEPT !.err = TRUE]
    ELSE IF st.cur = -1
    THEN IF HasOption(st.defaults, key) THEN [st EXCEPT !.err = TRUE]
         ELSE [st EXCEPT !.defaults = SetOption(@, key, text)]
    ELSE IF HasOption(st.sections[st.cur].opts, key) THEN [st EXCEPT !.err = TRUE]
         ELSE [st EXCEPT !.sections[st.cur].opts = SetOption(@, key, text)]

ReadHeader(st, name) ==
    IF name = DefaultSection THEN [st EXCEPT !.cur = -1]
    ELSE IF HasSection(st.sections, name) THEN [st EXCEPT !.err = TRUE]
    ELSE [st EXCEPT !.sections = Append(@, [name |-> name, opts |-> <<>>]),
                    !.cur = Len(st.sections) + 1]

\* parser.read_file(f): blank lines and comment lines are skipped; "[name]"
\* opens a section; any other line is "option = value" or "option: value",
\* both sides stripped.  (Lines that start with whitespace, the continuation
\* of a value, do not occur: no option name written starts with whitespace
\* and no value holds a newline.)
RECURSIVE read_file(_, _)
read_file(lines, st) ==
    IF Len(lines) = 0 THEN st
    ELSE LET body == strip(Head(lines))
             close == FindLast(body, "]", Len(body))
             delim == Find(body, {"=", ":"}, 1)
             next ==
                 IF Len(body) = 0 THEN st
                 ELSE IF body[1] \in {"#", ";"} THEN st
                 ELSE IF body[1] = "[" /\ close > 2
                      THEN ReadHeader(st, SubSeq(body, 2, close - 1))
                 ELSE IF delim = 0 THEN [st EXCEPT !.err = TRUE]
                 ELSE ReadOption(st, optionxform(rstrip(SubSeq(body, 1, delim - 1))),
                                 strip(SubSeq(body, delim + 1, Len(body))))
         IN read_file(Tail(lines), next)

\* parser.items(section): the default section's options, then its own
RECURSIVE items(_, _)
items(defaults, opts) ==
    IF Len(opts) = 0 THEN defaults
    ELSE items(SetOption(defaults, Head(opts).key, Head(opts).text), Tail(opts))

\* section_dict[key] = _parse_env_like_value(value)
CoerceOptions(opts) ==
    [i \in 1..Len(opts) |-> [key |-> opts[i].key, val |-> parse_env_like_value(opts[i].text)]]

\* FileSource._load_ini on the lines of the file
load_ini(lines) ==
    LET st == read_file(lines, NothingRead)
    IN IF st.err THEN [called |-> TRUE, raised |-> TRUE, tree |-> <<>>]
       ELSE [called |-> TRUE, raised |-> FALSE,
             tree |-> [i \in 1..Len(st.sections) |->
                          [name |-> st.sections[i].name,
                           opts |-> CoerceOptions(items(st.defaults, st.sections[i].opts))]]]

(***************************************************************************)
(* The trees dump() is tried on                                            *)
(***************************************************************************)
MaxOptions == 2
IniNames == {<<"a">>, DefaultSection}
IniKeys == {<<"k">>, <<"K">>, <<"j">>}
IniValues ==
    {PyBool(TRUE), PyInt(-3), PyFloat(15, -1), PyStr(<<"h", "i">>), PyStr(<<"4", "2">>),
     PyStr(<<" ", "x">>), PyList, PyDict, PyNone}

\* The item sequences of a dict with n items
OptionSeqs(n) ==
    {o \in [1..n -> [key : IniKeys, val : IniValues]] :
        \A i \in 1..n, j \in 1..n : i # j => o[i].key # o[j].key}

IniTreesOf(n) ==
    {<<>>}
        \cup UNION {{<<[name |-> s, opts |-> o]>> : s \in IniNames, o \in OptionSeqs(k)}
                        : k \in 0..n}
        \cup UNION {{<<[name |-> p[1], opts |-> o1], [name |-> p[2], opts |-> o2]>>
                        : p \in {q \in IniNames \X IniNames : q[1] # q[2]},
                          o1 \in OptionSeqs(k), o2 \in OptionSeqs(n - k)} : k \in 0..n}

\* What the target held before: "[a]", "k = 1", ""
OldLines == <<(<<"[", "a", "]">>), (<<"k", " ", "=", " ", "1">>), (<<>>)>>

InitIni ==
    /\ MergeUnused
    /\ ManagerUnused
    /\ DumpUnused
    /\ FileUnused
    /\ CoerceUnused
    /\ EnvUnused
    /\ ReloadUnused
    /\ heap = <<>>
    /\ \E n \in 0..MaxOptions : iniTree \in IniTreesOf(n)
    /\ \E old \in {NoLines, [exists |-> TRUE, lines |-> OldLines]} :
        iniFs = [target |-> old, tmp |-> NoLines]
    /\ iniDump = NoDump
    /\ iniLoad = NoLoad

\* FileSource.dump(iniTree) on an .ini path.  _dump_ini fills the parser, and
\* raises, before it opens the temporary file; opening or writing it and the
\* rename may fail.
IniDump ==
    /\ ~iniDump.called
    /\ LET r == dump_ini_sections(iniTree, <<>>)
           done(exc, at) == [called |-> TRUE, raised |-> exc # "none", exc |-> exc, at |-> at,
                             path |-> r.path, before |-> iniFs.target]
           written == [exists |-> TRUE, lines |-> write(r.parser)]
       IN IF r.raised
          THEN /\ iniDump' = done(r.exc, "serialize")
               /\ UNCHANGED iniFs
          ELSE \/ /\ iniDump' = done("none", "none")
                  /\ iniFs' = [target |-> written, tmp |-> NoLines]
               \/ /\ iniDump' = done("ConfigurationError", "open")
                  /\ UNCHANGED iniFs
               \/ /\ iniDump' = done("ConfigurationError", "replace")
                  /\ iniFs' = [iniFs EXCEPT !.tmp = written]
    /\ UNCHANGED <<iniTree, iniLoad, heap, varsMerge, varsManager, varsDump, varsFile,
                   varsCoerce, varsEnv, varsReload>>

\* FileSource.load() on the same path, the source not optional
IniLoad ==
    /\ iniDump.called
    /\ iniLoad' = IF iniFs.target.exists THEN load_ini(iniFs.target.lines)
                  ELSE [called |-> TRUE, raised |-> TRUE, tree |-> <<>>]
    /\ UNCHANGED <<iniTree, iniFs, iniDump, heap, varsMerge, varsManager, varsDump, varsFile,
                   varsCoerce, varsEnv, varsReload>>

NextIni == IniDump \/ IniLoad

SpecIni == InitIni /\ [][NextIni]_vars

(***************************************************************************)
(* Claims about the INI codec                                              *)
(***************************************************************************)
\* The value of a tree: a dict does not tell the order of its items.
TreeValue(tree) ==
    [names |-> {tree[i].name : i \in 1..Len(tree)},
     opts |-> UNION {{<<tree[i].name, tree[i].opts[j].key, tree[i].opts[j].val>>
                        : j \in 1..Len(tree[i].opts)} : i \in 1..Len(tree)}]

\* Every option value is a string, an integer, a float or a boolean.
IniSupported(tree) == \A x \in TreeValue(tree).opts : IsScalar(x[3])

\* The dotted paths section.option of the options whose value is none of these.
OffendingPaths(tree) ==
    {x[1] \o <<".">> \o x[2] : x \in {y \in TreeValue(tree).opts : ~IsScalar(y[3])}}

\* C11: for every INI-supported tree, dump(tree) followed by load() on the
\* same path returns a tree equal to the original: the same sections and
\* option keys, every value with its type.
C11_IniRoundTrip ==
    (IniSupported(iniTree) /\ iniDump.called /\ ~iniDump.raised /\ iniLoad.called) =>
        /\ ~iniLoad.raised
        /\ TreeValue(iniLoad.tree) = TreeValue(iniTree)

\* C14: for every tree with an option value that is a sequence, a mapping or
\* null, dump() to an INI path fails with a ConfigurationError that names the
\* dotted path of an offending option, before anything is written: the target
\* is as it was and there is no temporary file.
C14_IniDumpRejectsNonScalars ==
    (OffendingPaths(iniTree) # {} /\ iniDump.called) =>
        /\ iniDump.raised
        /\ iniDump.exc = "ConfigurationError"
        /\ iniDump.at = "serialize"
        /\ iniDump.path \in OffendingPaths(iniTree)
        /\ iniFs.target = iniDump.before
        /\ ~iniFs.tmp.exists

(***************************************************************************)
(* sources.py: EnvSource                                                   *)
(***************************************************************************)
\* Largest number of variables in the environment.
MaxVars == 2

\* str.startswith
startswith(s, p) == Len(s) >= Len(p) /\ SubSeq(s, 1, Len(p)) = p

\* str.split("__") after the text cur already read: left to right, the
\* separators not overlapping
RECURSIVE split(_, _)
split(s, cur) ==
    IF Len(s) = 0 THEN <<cur>>
    ELSE IF Len(s) >= 2 /\ s[1] = "_" /\ s[2] = "_"
         THEN <<cur>> \o split(SubSeq(s, 3, Len(s)), <<>>)
         ELSE split(Tail(s), Append(cur, Head(s)))

\* parts = [p.lower() for p in raw_key.split("__") if p]
Parts(raw_key) ==
    LET ps == SelectSeq(split(raw_key, <<>>), LAMBDA p : Len(p) > 0)
    IN [i \in 1..Len(ps) |-> lower(ps[i])]

\* The dict key a part is: the parts that occur are the one-letter names of Keys.
PartKey(part) == CHOOSE k \in Keys : part = <<k>>

\* A scalar as the heap holds it: an integer by itself, any other scalar by
\* its number in Interned.
Interned == <<PyBool(FALSE), PyBool(TRUE), PyStr(<<"x">>)>>
Scalar(v) ==
    IF v.t = "int" THEN IntVal(v.n)
    ELSE IntVal(100 + CHOOSE i \in 1..Len(Interned) : Interned[i] = v)

\* The loop over parts[:-1] and current[parts[-1]] = value
RECURSIVE env_nest(_, _, _, _)
env_nest(h, current, parts, value) ==
    IF Len(parts) = 1 THEN [h EXCEPT ![current].items[PartKey(parts[1])] = value]
    ELSE LET key == PartKey(Head(parts))
             child == h[current].items[key]
         IN IF IsMapping(h, child) THEN env_nest(h, child.v, Tail(parts), value)
            ELSE env_nest(Append([h EXCEPT ![current].items[key] = Ref(Len(h) + 1)], EmptyDict),
                          Len(h) + 1, Tail(parts), value)

\* Plausible bug: the fragments are merged the other way round, first wins.
env_merge_first_wins(h, result, nested) == deep_merge(h, nested, result)

\* result = deep_merge(result, nested)
env_merge(h, result, nested) == deep_merge(h, result, nested)

\* Plausible bug: return result
env_result_keeps_empty(h, result) == Ref(result)

\* return result or None
env_result(h, result) == IF KeysOf(h, result) = {} THEN None ELSE Ref(result)

\* for key, value in os.environ.items(): ...
RECURSIVE EnvSource_load_loop(_, _, _, _)
EnvSource_load_loop(h, result, env, prefix) ==
    IF Len(env) = 0 THEN [heap |-> h, ref |-> result]
    ELSE LET key == Head(env).name
             raw_key == SubSeq(key, Len(prefix) + 1, Len(key))
         IN IF ~startswith(key, prefix) THEN EnvSource_load_loop(h, result, Tail(env), prefix)
            ELSE IF Len(raw_key) = 0 THEN EnvSource_load_loop(h, result, Tail(env), prefix)
            ELSE IF Len(Parts(raw_key)) = 0
                 THEN EnvSource_load_loop(h, result, Tail(env), prefix)
            ELSE LET nested == Len(h) + 1
                     h1 == env_nest(Append(h, EmptyDict), nested, Parts(raw_key),
                                    Scalar(parse_env_like_value(Head(env).value)))
                     m == env_merge(h1, result, nested)
                 IN EnvSource_load_loop(m.heap, m.ref, Tail(env), prefix)

\* EnvSource.load(): the objects it made and the value it returns
EnvSource_load(h, env, prefix) ==
    LET r == EnvSource_load_loop(Append(h, EmptyDict), Len(h) + 1, env, prefix)
    IN [heap |-> r.heap, val |-> env_result(r.heap, r.ref)]

\* Variable names: with the prefix or not, in upper and lower case, with
\* empty segments, single underscores kept apart from separators.
EnvNames ==
    {<<"P", "_", "A">>, <<"P", "_", "a">>, <<"P", "_", "B">>,
     <<"P", "_", "A", "_", "_", "B">>, <<"P", "_", "A", "_", "_", "A">>,
     <<"P", "_", "a", "_", "_", "b">>, <<"P", "_", "_", "_", "A">>,
     <<"P", "_", "A", "_", "_">>, <<"P", "_", "A", "_", "_", "_", "_", "B">>,
     <<"P", "_", "A", "_", "_", "B", "_", "_", "A">>,
     <<"P", "_">>, <<"P", "_", "_", "_">>, <<"p", "_", "A">>, <<"X", "P", "_", "A">>,
     <<"Q", "_", "B">>}
EnvTexts == {<<"1">>, <<"o", "n">>, <<"x">>}
EnvPrefixes == {<<"P", "_">>, <<"Q", "_">>}

InitEnv ==
    /\ MergeUnused
    /\ ManagerUnused
    /\ DumpUnused
    /\ FileUnused
    /\ CoerceUnused
    /\ IniUnused
    /\ ReloadUnused
    /\ heap = <<>>
    /\ environ = <<>>
    /\ envPrefix \in EnvPrefixes
    /\ envLoad = NoEnvLoad

\* os.environ[name] = value, before the source is loaded: a new variable comes
\* last in the iteration order, a variable that exists keeps its place.
EnvSet ==
    /\ ~envLoad.called
    /\ \E name \in EnvNames, value \in EnvTexts :
        IF \E i \in 1..Len(environ) : environ[i].name = name
        THEN environ' = [i \in 1..Len(environ) |->
                            IF environ[i].name = name THEN [name |-> name, value |-> value]
                            ELSE environ[i]]
        ELSE /\ Len(environ) < MaxVars
             /\ environ' = Append(environ, [name |-> name, value |-> value])
    /\ UNCHANGED <<envPrefix, envLoad, heap, varsMerge, varsManager, varsDump, varsFile,
                   varsCoerce, varsIni, varsReload>>

\* source.load(); the dicts it made are garbage once its value is taken.
EnvLoad ==
    /\ LET r == EnvSource_load(<<>>, environ, envPrefix)
       IN envLoad' = [called |-> TRUE, absent |-> r.val = None,
                      tree |-> IF r.val = None THEN {} ELSE Flat(r.heap, r.val)]
    /\ UNCHANGED <<environ, envPrefix, heap, varsMerge, varsManager, varsDump, varsFile,
                   varsCoerce, varsIni, varsReload>>

NextEnv == EnvSet \/ EnvLoad

SpecEnv == InitEnv /\ [][NextEnv]_vars

(***************************************************************************)
(* Claims about EnvSource                                                  *)
(***************************************************************************)
\* Variable i starts with the prefix and has a non-empty segment after it.
Contributes(i) ==
    /\ startswith(environ[i].name, envPrefix)
    /\ Len(Parts(SubSeq(environ[i].name, Len(envPrefix) + 1, Len(environ[i].name)))) > 0
Contributors == {i \in 1..Len(environ) : Contributes(i)}

\* The path of variable i, its leaf, and the tree that holds just that.
PathOf(i) ==
    LET parts == Parts(SubSeq(environ[i].name, Len(envPrefix) + 1, Len(environ[i].name)))
    IN [j \in 1..Len(parts) |-> PartKey(parts[j])]
LeafOf(i) == IntLeaf(Scalar(parse_env_like_value(environ[i].value)).v)
Fragment(i) ==
    {<<q, MapLeaf>> : q \in Prefixes(PathOf(i)) \ {PathOf(i)}} \cup {<<PathOf(i), LeafOf(i)>>}

Collide(i, j) == PathOf(i) \in Prefixes(PathOf(j)) \/ PathOf(j) \in Prefixes(PathOf(i))
NoCollision == \A i \in Contributors, j \in Contributors : i # j => ~Collide(i, j)

\* The fragments of the contributing variables from i on, in iteration order.
RECURSIVE Fragments(_)
Fragments(i) ==
    IF i > Len(environ) THEN <<>>
    ELSE IF Contributes(i) THEN <<Fragment(i)>> \o Fragments(i + 1)
    ELSE Fragments(i + 1)

\* C13: with no two contributing variables at the same path or at paths one a
\* prefix of the other, load() returns exactly the tree that holds the coerced
\* value of every contributing variable at its path, and None when no
\* variable contributes.
C13_EnvTreeOfVariables ==
    (envLoad.called /\ NoCollision) =>
        IF Contributors = {} THEN envLoad.absent
        ELSE /\ ~envLoad.absent
             /\ envLoad.tree = UNION {Fragment(i) : i \in Contributors}

\* C13 witness: two variables under one parent were loaded into one nested
\* mapping.
C13_Witness ==
    /\ envLoad.called
    /\ NoCollision
    /\ \E i \in Contributors, j \in Contributors :
        /\ i # j
        /\ Len(PathOf(i)) = 2
        /\ Len(PathOf(j)) = 2
        /\ PathOf(i)[1] = PathOf(j)[1]

\* C18: whatever the variables, colliding or not, load() returns the fold of
\* their fragments in iteration order, at every path the last one applied
\* standing: a later nested variable puts a mapping where an earlier scalar
\* was, a later scalar replaces an earlier mapping whole.
C18_EnvCollisionLastWins ==
    envLoad.called =>
        IF Contributors = {} THEN envLoad.absent
        ELSE /\ ~envLoad.absent
             /\ envLoad.tree = FoldValue(<<EmptyTree>> \o Fragments(1))

\* C18 witness: a scalar at a path and, after it, a variable nested under
\* that path; the mapping with the later leaf stands.
C18_Witness ==
    /\ envLoad.called
    /\ \E i \in Contributors, j \in Contributors :
        /\ i < j
        /\ PathOf(i) # PathOf(j)
        /\ PathOf(i) \in Prefixes(PathOf(j))
        /\ LeafAt(envLoad.tree, PathOf(i)) = MapLeaf
        /\ LeafAt(envLoad.tree, PathOf(j)) = LeafOf(j)

(***************************************************************************)
(* Claims about load() on missing files and unknown extensions             *)
(***************************************************************************)
\* C15: for FileSource and RawSource alike, load() on a path that does not
\* exist returns None when the source is optional and raises the not-found
\* ConfigurationError when it is not, and a load() creates nothing on disk.
C15_MissingFileAbsentOrNotFound ==
    /\ [](\A l \in {fLoad, rawLoad} :
            (l.called /\ ~l.exists) =>
                IF fOptional THEN ~l.raised /\ l.val = "none"
                ELSE l.raised /\ l.err = "not found")
    /\ [][(fLoad' # fLoad \/ rawLoad' # rawLoad) => (fExists' = fExists /\ fDoc' = fDoc)]_vars

\* C15 witness: both sources, optional, were loaded with the file missing.
C15_Witness ==
    /\ fOptional
    /\ fLoad.called
    /\ ~fLoad.exists
    /\ rawLoad.called
    /\ ~rawLoad.exists
    /\ ~fExists

\* The extensions tried that are none of the recognized ones in any case.
UnrecognizedSuffixes == {".txt", ""}

\* C19 as stated: with an unrecognized extension load() fails with the
\* unsupported-format error naming the extension, whether or not the file
\* exists and whether or not the source is optional.
C19_UnsupportedAlwaysFails ==
    (fLoad.called /\ fSuffix \in UnrecognizedSuffixes) =>
        /\ fLoad.raised
        /\ fLoad.err = "unsupported format"
        /\ fLoad.ext = fSuffix

\* C19 as amended: for a file that exists, load() fails with the unsupported-
\* format error naming the extension exactly when the extension is not a
\* recognized one, optional or not; for a missing file the extension is not
\* looked at: None when optional, the not-found error when not.
C19_UnsupportedFailsForExistingFile ==
    fLoad.called =>
        /\ fLoad.exists =>
            /\ fSuffix \in UnrecognizedSuffixes
                   <=> (fLoad.raised /\ fLoad.err = "unsupported format")
            /\ fSuffix \in UnrecognizedSuffixes => fLoad.ext = fSuffix
        /\ (~fLoad.exists /\ fSuffix \in UnrecognizedSuffixes) =>
            IF fOptional THEN ~fLoad.raised /\ fLoad.val = "none"
            ELSE fLoad.raised /\ fLoad.err = "not found"

\* C19 witness: an optional source with an unrecognized extension was loaded
\* with the file there, and failed.
C19_Witness ==
    /\ fLoad.called
    /\ fLoad.exists
    /\ fOptional
    /\ fSuffix \in UnrecognizedSuffixes
    /\ fLoad.raised

(***************************************************************************)
(* Claims about the file mode of RawSource.dump                            *)
(***************************************************************************)
\* C16: in a RawSource.dump() with a file_mode m, whenever the target holds
\* the new content its permission bits are m & 0o777, no higher bit applied,
\* and so they are when the dump has returned.
C16_TargetModeIsRequestedMode ==
    \A p \in 1..MaxDumps :
        (IsLatest(p) /\ procs[p].kind = "raw" /\ procs[p].mode.given
                /\ TargetState = NewFile(p)) =>
            fsInodes[fsNames["target"]].mode = procs[p].mode.bits % (8 * 8 * 8)

\* C16 witness: a dump asked for 0o4755 returned and the target has 0o755.
C16_Witness ==
    \E p \in 1..MaxDumps :
        /\ IsLatest(p)
        /\ procs[p].pc = "returned"
        /\ procs[p].mode.given
        /\ procs[p].mode.bits > 8 * 8 * 8
        /\ fsInodes[fsNames["target"]].mode = 7 * 64 + 5 * 8 + 5


(***************************************************************************)
(* manager.py: ConfigManager.load called again and again while the file    *)
(* and the environment its sources read change                             *)
(***************************************************************************)
MaxReloads == 2

\* What the sources read at the moment of a call, and how the FileSource and
\* the EnvSource were constructed (path suffix, optional, prefix).
External ==
    [suffix |-> fSuffix, optional |-> fOptional, exists |-> fExists, doc |-> fDoc,
     prefix |-> envPrefix, environ |-> environ]

\* What FileSource.load() hands to the manager when its outcome is r: the
\* parser makes new objects for what it returns.
Reload_file(h, r) ==
    IF r.raised THEN [heap |-> h, raised |-> TRUE, val |-> None]
    ELSE IF r.val = "mapping" THEN [heap |-> Build(h, r.tree).heap, raised |-> FALSE,
                                    val |-> Ref(Len(h) + 1)]
    ELSE IF r.val = "none" THEN [heap |-> h, raised |-> FALSE, val |-> None]
    ELSE IF r.val = "sequence" THEN [heap |-> Append(h, ListObj(<<1>>)), raised |-> FALSE,
                                     val |-> Ref(Len(h) + 1)]
    ELSE [heap |-> h, raised |-> FALSE, val |-> IntVal(42)]

\* EnvSource.load() raises nothing.
Reload_env(r) == [heap |-> r.heap, raised |-> FALSE, val |-> r.val]

\* source.load() of a DictSource, a FileSource or an EnvSource.
Reload_source(h, src, ext) ==
    IF src.kind = "file"
    THEN Reload_file(h, FileSource_load(ext.suffix, ext.optional, ext.exists, ext.doc,
                                        TRUE, TRUE))
    ELSE IF src.kind = "env" THEN Reload_env(EnvSource_load(h, ext.environ, ext.prefix))
    ELSE Source_load(h, src)

\* The state of the call after merged = deep_merge(merged, data)
load_merged(m) == [heap |-> m.heap, raised |-> FALSE, ref |-> m.ref]

\* The body of the loop for data = r.val, from state st of the call: the
\* heap, whether the call has raised, and merged.
load_turn_on(st, r, d) ==
    IF d \in {"propagate", "raise"} THEN [heap |-> r.heap, raised |-> TRUE, ref |-> 0]
    ELSE IF d = "continue" THEN [heap |-> r.heap, raised |-> FALSE, ref |-> st.ref]
    ELSE load_merged(load_merge(r.heap, st.ref, r.val.v))

load_turn_of(st, r) ==
    load_turn_on(st, r, IF r.raised THEN "propagate" ELSE load_dispatch(r.heap, r.val))

\* One turn of "for source in self._sources"; no turn follows a raise.
load_turn(st, src, ext) ==
    IF st.raised THEN st ELSE load_turn_of(st, Reload_source(st.heap, src, ext))

\* merged = {} and the whole loop: the state after the last turn, as a set of
\* one element so that every turn is computed once from the state before it.
RECURSIVE ConfigManager_load_loop(_, _, _)
ConfigManager_load_loop(h, srcs, ext) ==
    IF Len(srcs) = 0
    THEN {[heap |-> Append(h, EmptyDict), raised |-> FALSE, ref |-> Len(h) + 1]}
    ELSE {load_turn(st, srcs[Len(srcs)], ext) :
            st \in ConfigManager_load_loop(h, SubSeq(srcs, 1, Len(srcs) - 1), ext)}

\* return Config(merged)
load_config(c) == [heap |-> c.heap, raised |-> FALSE, tree |-> Flat(c.heap, Ref(c.ref))]

\* validate_config(merged, self._schema); return Config(merged)
load_return(f, sch) ==
    IF f.raised THEN [heap |-> f.heap, raised |-> TRUE, tree |-> {}]
    ELSE IF validate_config(Flat(f.heap, Ref(f.ref)), sch, TRUE) # "ok"
         THEN [heap |-> f.heap, raised |-> TRUE, tree |-> {}]
    ELSE load_config(Config_init(f.heap, f.ref))

\* ConfigManager.load() as one call, jsonschema installed: the heap after it,
\* and the content of the Config it returns unless it raises.
ConfigManager_load(h, srcs, sch, ext) ==
    CHOOSE res \in {load_return(f, sch) : f \in ConfigManager_load_loop(h, srcs, ext)} : TRUE

\* The defaults given to the DictSource: a nested mapping, a list.
ReloadTrees ==
    { {<<<<>>, MapLeaf>>, <<<<"a">>, MapLeaf>>, <<<<"a", "a">>, IntLeaf(1)>>,
       <<<<"a", "b">>, IntLeaf(2)>>},
      {<<<<>>, MapLeaf>>, <<<<"a">>, SeqLeaf(<<1>>)>>, <<<<"b">>, IntLeaf(2)>>} }
ReloadSchemas == {NoSchema, [present |-> TRUE, required |-> {"b"}]}
ReloadDocs ==
    {[top |-> "mapping", tree |-> {<<<<>>, MapLeaf>>, <<<<"a">>, IntLeaf(1)>>}],
     [top |-> "sequence", tree |-> {}]}
ReloadEnvNames == {<<"P", "_", "A", "_", "_", "B">>, <<"P", "_", "B">>}

\* The values held by the DictSources among srcs, None for the other sources.
SourceData(h, srcs) ==
    [s \in 1..Len(srcs) |->
        IF srcs[s].kind = "dict" THEN Flat(h, Ref(srcs[s].data)) ELSE {}]

\* ConfigManager([DictSource(defaults), FileSource("c.json", optional=...),
\*                EnvSource("P_")], schema=...)
InitReload ==
    /\ MergeUnused
    /\ ManagerUnused
    /\ DumpUnused
    /\ CoerceUnused
    /\ IniUnused
    /\ \E t \in ReloadTrees :
        LET specs == <<[kind |-> "dict", tree |-> t], [kind |-> "file", tree |-> {}],
                       [kind |-> "env", tree |-> {}]>>
            c == Construct(<<>>, specs, <<>>, <<>>)
        IN /\ rSpecs = specs
           /\ heap = c.heap
           /\ rSources = c.sources
           /\ rData0 = SourceData(c.heap, c.sources)
    /\ rSchema \in ReloadSchemas
    /\ rCount = 0
    /\ rLast = <<>>
    /\ rFresh = <<>>
    /\ fSuffix = ".json"
    /\ fOptional \in BOOLEAN
    /\ fExists = FALSE
    /\ fDoc = NoDoc
    /\ tomlAvailable = FALSE
    /\ yamlAvailable = FALSE
    /\ fLoad = NotLoaded
    /\ rawLoad = NotLoaded
    /\ environ = <<>>
    /\ envPrefix = <<"P", "_">>
    /\ envLoad = NoEnvLoad

\* Something outside writes the file the FileSource reads.
ReloadFileWritten ==
    /\ \E d \in ReloadDocs : fDoc' = d
    /\ fExists' = TRUE
    /\ UNCHANGED <<fSuffix, fOptional, tomlAvailable, yamlAvailable, fLoad, rawLoad,
                   heap, varsMerge, varsManager, varsDump, varsText>>

\* Something outside removes that file.
ReloadFileRemoved ==
    /\ fExists
    /\ fExists' = FALSE
    /\ fDoc' = NoDoc
    /\ UNCHANGED <<fSuffix, fOptional, tomlAvailable, yamlAvailable, fLoad, rawLoad,
                   heap, varsMerge, varsManager, varsDump, varsText>>

\* os.environ[name] = "1" for a variable that is not set
ReloadEnvSet ==
    /\ Len(environ) < MaxVars
    /\ \E name \in ReloadEnvNames :
        /\ \A i \in 1..Len(environ) : environ[i].name # name
        /\ environ' = Append(environ, [name |-> name, value |-> <<"1">>])
    /\ UNCHANGED <<envPrefix, envLoad, heap, varsMerge, varsManager, varsDump, varsFile,
                   varsCoerce, varsIni, varsReload>>

\* del os.environ[name]
ReloadEnvUnset ==
    /\ \E i \in 1..Len(environ) :
        environ' = SubSeq(environ, 1, i - 1) \o SubSeq(environ, i + 1, Len(environ))
    /\ UNCHANGED <<envPrefix, envLoad, heap, varsMerge, varsManager, varsDump, varsFile,
                   varsCoerce, varsIni, varsReload>>

\* manager.load(), and beside it what ConfigManager(sources, schema).load()
\* returns when the sources and the manager are constructed at this moment.
Reload ==
    /\ rCount < MaxReloads
    /\ \E r \in {ConfigManager_load(heap, rSources, rSchema, External)},
          f \in {Construct(<<>>, rSpecs, <<>>, <<>>)} :
        \E g \in {ConfigManager_load(f.heap, f.sources, rSchema, External)} :
            /\ heap' = r.heap
            /\ rLast' = Append(rLast, [raised |-> r.raised, tree |-> r.tree])
            /\ rFresh' = Append(rFresh, [raised |-> g.raised, tree |-> g.tree])
    /\ rCount' = rCount + 1
    /\ UNCHANGED <<rSpecs, rSources, rSchema, rData0, varsMerge, varsManager, varsDump,
                   varsFile, varsCoerce, varsIni, varsEnv>>

NextReload ==
    \/ ReloadFileWritten
    \/ ReloadFileRemoved
    \/ ReloadEnvSet
    \/ ReloadEnvUnset
    \/ Reload

SpecReload == InitReload /\ [][NextReload]_vars

\* C17: load() may be called again and again with changes to the file and to
\* the environment in between: every call returns (or raises) what a manager
\* constructed at that moment over the same sources returns, the DictSource
\* holds after every call what it held when constructed, and a call changes
\* neither the file nor the environment nor the sources of the manager.
C17_LoadIsRepeatable ==
    /\ [](\A i \in 1..Len(rLast) : rLast[i] = rFresh[i])
    /\ [](SourceData(heap, rSources) = rData0)
    /\ [][rCount' # rCount =>
            /\ fExists' = fExists /\ fDoc' = fDoc /\ environ' = environ
            /\ fSuffix' = fSuffix /\ fOptional' = fOptional /\ envPrefix' = envPrefix
            /\ rSources' = rSources]_vars

\* Two calls that both returned, differently, because the file or the
\* environment changed between them; the second one merged into the nested
\* mapping of the defaults.
C17_Witness ==
    /\ Len(rLast) = 2
    /\ ~rLast[1].raised
    /\ ~rLast[2].raised
    /\ rLast[1].tree # rLast[2].tree
    /\ <<<<"a", "a">>, IntLeaf(1)>> \in rLast[2].tree
    /\ <<<<"a", "b">>, IntLeaf(1)>> \in rLast[2].tree

====
